---- MODULE Spec2Model ----
(***************************************************************************)
(* A model of inpdf's navigation core: the page-range grammar              *)
(* (src/page_range.rs) and the page-label resolver                         *)
(* (src/pdf/page_labels.rs).                                               *)
(*                                                                         *)
(* A Rust Result is a record with a tag "Ok" or "Err"; an Option is a      *)
(* record with a tag "Some" or "None".                                     *)
(***************************************************************************)
EXTENDS Integers, Sequences, FiniteSets, TLC

VARIABLES
    pc,           \* position of the running call
    s,            \* the text argument (page_range.rs)
    total_pages,  \* the total_pages argument / doc.get_pages().len()
    range,        \* the PageRange a call works on
    ranges,       \* local `ranges` of expand_page_ranges
    idx,          \* position of the `for range in ranges` loop
    pages,        \* local `pages` of expand_page_ranges
    ret,          \* the value the call returned
    doc,          \* the document (page_labels.rs): catalog, objects, pages
    overflow_checks, \* whether the build panics on integer overflow
    label_ranges, \* local `ranges` of extract_page_labels_from_doc
    physical_page, \* the loop variable of extract_page_labels_from_doc
    labels,       \* local `labels` of extract_page_labels_from_doc
    style,        \* the LabelStyle a number is rendered in
    value,        \* the number rendered
    stack,        \* the running calls of parse_outline_items (toc.rs)
    visits,       \* how many outline items the traversal has read
    flat,         \* the result of flatten_toc
    input_bytes   \* the byte string given to the decode_pdf_string functions

rangeVars == <<s, range, ranges, idx, pages>>
labelVars == <<doc, overflow_checks, label_ranges, physical_page, labels>>
numeralVars == <<style, value>>
tocVars == <<stack, visits, flat>>
vars == <<pc, total_pages, ret, rangeVars, labelVars, numeralVars, tocVars, input_bytes>>

(***************************************************************************)
(* Bounds of the model.                                                    *)
(***************************************************************************)
\* Width of the unsigned integers.  The program's u32 has 32 bits; TLC's
\* integers are 32-bit signed, so the width is a parameter of the model and
\* every wrap, cast and overflow test is stated relative to it.
WordBits == 12
\* Longest segment text, in tokens, given to PageRange::parse.
MaxSegTokens == 3
\* Most comma-separated segments given to expand_page_ranges.
MaxSegs == 3
\* Largest total_pages argument.
MaxTotal == 3
\* Most key/value pairs in the Nums arrays of a document.
MaxPairs == 2
\* Most pages of a document.
MaxDocPages == 3
\* Most pages of a document without a readable PageLabels entry.
MaxPlainPages == 10
\* Largest number rendered on its own.
MaxValue == 2000

\* Most entries of a TOC tree built directly.
MaxTocNodes == 3

\* How deep the resolution of a destination is followed.
MaxResolveDepth == 6

\* Most items of an outline.
MaxOutlineNodes == 3

\* Longest byte string given to the decode_pdf_string functions.
MaxBytes == 4

\* Longest page list given to extract_pages directly.
MaxListLen == 3

RECURSIVE Pow2(_)
Pow2(n) == IF n = 0 THEN 1 ELSE 2 * Pow2(n - 1)

\* u32::MAX at the modelled width.
UMax == Pow2(WordBits) - 1

(***************************************************************************)
(* Results and options.                                                    *)
(***************************************************************************)
Ok(v) == [tag |-> "Ok", val |-> v]
Err(kind, msg) == [tag |-> "Err", kind |-> kind, msg |-> msg]
IsOk(r) == r.tag = "Ok"
IsErr(r) == r.tag = "Err"
NoRet == [tag |-> "Pending"]

Some(v) == [tag |-> "Some", val |-> v]
None == [tag |-> "None"]

(***************************************************************************)
(* src/page_range.rs: the data types.                                      *)
(***************************************************************************)
Rotation == {"None", "Right", "Down", "Left"}

Number(n) == [tag |-> "Number", n |-> n]
End == [tag |-> "End"]

PageRange(start, end, rotation) == [start |-> start, end |-> end, rotation |-> rotation]

(***************************************************************************)
(* Characters are code points (Rust's u8 and char); a text is a sequence   *)
(* of them.  B and Str write the bytes of a literal.                       *)
(***************************************************************************)
DigitChars == <<"0", "1", "2", "3", "4", "5", "6", "7", "8", "9">>
UpperChars == <<"A", "B", "C", "D", "E", "F", "G", "H", "I", "J", "K", "L", "M",
                "N", "O", "P", "Q", "R", "S", "T", "U", "V", "W", "X", "Y", "Z">>
LowerChars == <<"a", "b", "c", "d", "e", "f", "g", "h", "i", "j", "k", "l", "m",
                "n", "o", "p", "q", "r", "s", "t", "u", "v", "w", "x", "y", "z">>

\* b'c': the ASCII code of a character literal.
B(c) ==
    CASE \E i \in 1..10 : DigitChars[i] = c -> 47 + (CHOOSE i \in 1..10 : DigitChars[i] = c)
      [] \E i \in 1..26 : UpperChars[i] = c -> 64 + (CHOOSE i \in 1..26 : UpperChars[i] = c)
      [] \E i \in 1..26 : LowerChars[i] = c -> 96 + (CHOOSE i \in 1..26 : LowerChars[i] = c)
      [] c = " " -> 32
      [] c = "+" -> 43
      [] c = "," -> 44
      [] c = "-" -> 45

\* b"...": the bytes of a text literal.
Str(lit) == [k \in 1..Len(lit) |-> B(lit[k])]

\* u8::is_ascii_digit
is_ascii_digit(c) == c \in 48..57

DigitValue(c) == c - 48

\* char::is_whitespace, on the ASCII range
is_whitespace(c) == c \in {9, 10, 11, 12, 13, 32}

\* u8::to_ascii_lowercase / to_ascii_uppercase
to_ascii_lowercase(c) == IF c \in 65..90 THEN c + 32 ELSE c

eq_ignore_ascii_case(a, b) ==
    /\ Len(a) = Len(b)
    /\ \A i \in 1..Len(a) : to_ascii_lowercase(a[i]) = to_ascii_lowercase(b[i])

\* u32::to_string: the decimal digits, most significant first.
RECURSIVE to_string(_)
to_string(n) ==
    IF n < 10 THEN <<48 + n>> ELSE to_string(n \div 10) \o <<48 + (n % 10)>>

RECURSIVE trim_start(_)
trim_start(t) ==
    IF t # <<>> /\ is_whitespace(t[1]) THEN trim_start(Tail(t)) ELSE t

RECURSIVE trim_end(_)
trim_end(t) ==
    IF t # <<>> /\ is_whitespace(t[Len(t)])
    THEN trim_end(SubSeq(t, 1, Len(t) - 1))
    ELSE t

trim(t) == trim_end(trim_start(t))

\* str::find(ch): the zero-based position of the first ch, or None.
find(t, ch) ==
    IF \E i \in 1..Len(t) : t[i] = ch
    THEN Some((CHOOSE i \in 1..Len(t) : t[i] = ch /\ \A j \in 1..(i - 1) : t[j] # ch) - 1)
    ELSE None

\* str::split(sep): the pieces between the separators, in order; a text
\* without separator (the empty text included) is one piece.
RECURSIVE split(_, _)
split(t, sep) ==
    LET pos == find(t, sep) IN
    IF pos.tag = "None" THEN <<t>>
    ELSE <<SubSeq(t, 1, pos.val)>> \o split(SubSeq(t, pos.val + 2, Len(t)), sep)

\* str::parse::<u32>(): an optional leading "+", then one or more decimal
\* digits, accumulated with checked multiplication and addition.
RECURSIVE checked_digits(_, _)
checked_digits(digits, acc) ==
    IF digits = <<>> THEN Some(acc)
    ELSE IF ~is_ascii_digit(digits[1]) THEN None
    ELSE IF acc * 10 > UMax THEN None
    ELSE IF acc * 10 + DigitValue(digits[1]) > UMax THEN None
    ELSE checked_digits(Tail(digits), acc * 10 + DigitValue(digits[1]))

parse_u32(t) ==
    IF t = <<>> THEN None
    ELSE LET digits == IF t[1] = 43 THEN Tail(t) ELSE t IN  \* 43 is '+'
         IF digits = <<>> THEN None ELSE checked_digits(digits, 0)

(***************************************************************************)
(* src/page_range.rs: parse_page_ref, PageRange::parse, PageRange::expand. *)
(***************************************************************************)
parse_page_ref(t0) ==
    LET t == trim(t0) IN
    IF eq_ignore_ascii_case(t, Str(<<"e", "n", "d">>)) THEN Ok(End)
    ELSE LET n == parse_u32(t) IN
         IF n.tag = "Some" THEN Ok(Number(n.val))
         ELSE Err("ParseError", "Invalid page number")

\* The rotation suffix: the last character, read as a rotation only when the
\* character before it is a digit.
RotationOfChar(c) ==
    CASE c \in {82, 114} -> "Right"  \* b'R' | b'r'
      [] c \in {76, 108} -> "Left"   \* b'L' | b'l'
      [] c \in {68, 100} -> "Down"   \* b'D' | b'd'
      [] OTHER -> "None"

rotation_suffix_any_predecessor(t) ==
    LET len == Len(t) IN
    IF len >= 2 /\ RotationOfChar(t[len]) # "None"
    THEN [range_part |-> SubSeq(t, 1, len - 1), rotation |-> RotationOfChar(t[len])]
    ELSE [range_part |-> t, rotation |-> "None"]

rotation_suffix(t) ==
    LET len == Len(t) IN
    IF len >= 2 /\ is_ascii_digit(t[len - 1]) /\ RotationOfChar(t[len]) # "None"
    THEN [range_part |-> SubSeq(t, 1, len - 1), rotation |-> RotationOfChar(t[len])]
    ELSE [range_part |-> t, rotation |-> "None"]

PageRange_parse(t0) ==
    LET t == trim(t0) IN
    IF t = <<>> THEN Err("ParseError", "Empty page range")
    ELSE
      LET sfx == rotation_suffix(t)
          range_part == sfx.range_part
          dash == find(range_part, 45)  \* 45 is '-'
      IN
      IF dash.tag = "Some" THEN
          IF dash.val = 0 THEN Err("ParseError", "Invalid page range")
          ELSE
            LET start == parse_page_ref(SubSeq(range_part, 1, dash.val))
                end == parse_page_ref(SubSeq(range_part, dash.val + 2, Len(range_part)))
            IN
            IF IsErr(start) THEN start
            ELSE IF IsErr(end) THEN end
            ELSE Ok(PageRange(start.val, Some(end.val), sfx.rotation))
      ELSE
          LET page == parse_page_ref(range_part) IN
          IF IsErr(page) THEN page
          ELSE Ok(PageRange(page.val, None, sfx.rotation))

\* (start..=end).collect()
Ascending(start, end) == [k \in 1..(end - start + 1) |-> start + k - 1]

\* (end..=start).rev().collect()
Descending_unreversed(start, end) == Ascending(end, start)
Descending(start, end) == [k \in 1..(start - end + 1) |-> start - k + 1]

PageRange_expand_end_unchecked(r, total) ==
    LET start == IF r.start.tag = "Number" THEN r.start.n ELSE total
        end == IF r.end.tag = "None" THEN start
               ELSE IF r.end.val.tag = "Number" THEN r.end.val.n
               ELSE total
    IN
    IF start = 0 THEN Err("RangeError", "Page numbers must be >= 1")
    ELSE IF start > total THEN Err("RangeError", "Start page exceeds total pages")
    ELSE IF start <= end THEN Ok(Ascending(start, end))
    ELSE Ok(Descending(start, end))

\* expand without the test `start == 0 || end == 0`
PageRange_expand_zero_unchecked(r, total) ==
    LET start == IF r.start.tag = "Number" THEN r.start.n ELSE total
        end == IF r.end.tag = "None" THEN start
               ELSE IF r.end.val.tag = "Number" THEN r.end.val.n
               ELSE total
    IN
    IF start > total THEN Err("RangeError", "Start page exceeds total pages")
    ELSE IF end > total THEN Err("RangeError", "End page exceeds total pages")
    ELSE IF start <= end THEN Ok(Ascending(start, end))
    ELSE Ok(Descending(start, end))

PageRange_expand(r, total) ==
    LET start == IF r.start.tag = "Number" THEN r.start.n ELSE total
        end == IF r.end.tag = "None" THEN start
               ELSE IF r.end.val.tag = "Number" THEN r.end.val.n
               ELSE total
    IN
    IF start = 0 \/ end = 0 THEN Err("RangeError", "Page numbers must be >= 1")
    ELSE IF start > total THEN Err("RangeError", "Start page exceeds total pages")
    ELSE IF end > total THEN Err("RangeError", "End page exceeds total pages")
    ELSE IF start <= end THEN Ok(Ascending(start, end))
    ELSE Ok(Descending(start, end))

(***************************************************************************)
(* src/page_range.rs: parse_page_ranges.  Collecting an iterator of        *)
(* Results stops at the first Err and returns it.                          *)
(***************************************************************************)
RECURSIVE collect_results(_)
collect_results(rs) ==
    IF rs = <<>> THEN Ok(<<>>)
    ELSE IF IsErr(rs[1]) THEN rs[1]
    ELSE LET rest == collect_results(Tail(rs)) IN
         IF IsErr(rest) THEN rest ELSE Ok(<<rs[1].val>> \o rest.val)

parse_page_ranges(t) ==
    LET parts == split(t, 44) IN  \* 44 is ','
    collect_results([k \in 1..Len(parts) |-> PageRange_parse(trim(parts[k]))])

(***************************************************************************)
(* The inputs the calls are run on.                                        *)
(***************************************************************************)
\* Every concatenation of at most k of the tokens.
RECURSIVE TokenTexts(_, _)
TokenTexts(tokens, k) ==
    IF k = 0 THEN {<<>>}
    ELSE LET shorter == TokenTexts(tokens, k - 1) IN
         shorter \cup {p \o tok : p \in shorter, tok \in tokens}

\* Segment texts: at most MaxSegTokens tokens (digits, the dash, a sign, a
\* blank, a rotation letter), then possibly one more reference (`end` in
\* two letter cases, the decimal text of u32::MAX, of u32::MAX + 1), then
\* possibly one last letter (every rotation letter and another letter).
SegTokens ==
    { Str(<<"0">>), Str(<<"1">>), Str(<<"-">>), Str(<<"+">>), Str(<<" ">>), Str(<<"d">>) }

SegLastRefs ==
    { <<>>, Str(<<"e", "n", "d">>), Str(<<"E", "n", "D">>), to_string(UMax), to_string(UMax + 1) }

SegSuffixes ==
    { <<>>, Str(<<"R">>), Str(<<"r">>), Str(<<"L">>), Str(<<"l">>), Str(<<"D">>), Str(<<"x">>) }

SegTexts ==
    {p \o ref \o sfx : p \in TokenTexts(SegTokens, MaxSegTokens),
                       ref \in SegLastRefs, sfx \in SegSuffixes}

\* Texts of the grammar with small page numbers: REF or REF-REF, with or
\* without a rotation letter.
RefTexts == {to_string(n) : n \in 0..(MaxTotal + 2)} \cup {Str(<<"e", "n", "d">>)}

RangeTexts ==
    LET plain == RefTexts \cup {a \o Str(<<"-">>) \o b : a \in RefTexts, b \in RefTexts}
    IN plain \cup {p \o Str(<<"R">>) : p \in plain}

\* PageRange values built directly (the fields are public).
PageRefs == {Number(n) : n \in 0..(MaxTotal + 2)} \cup {End}

PageRanges ==
    {PageRange(a, e, rot) : a \in PageRefs, e \in {None} \cup {Some(b) : b \in PageRefs},
                            rot \in Rotation}

\* Comma-separated texts: at most MaxSegs segments joined by commas.  The
\* segments: empty, a leading dash, page 0, pages, `end`, ascending and
\* descending ranges, a blank before a page.
ListSegments ==
    { <<>>, Str(<<"-", "1">>), Str(<<"0">>), Str(<<"1">>), Str(<<"2">>), Str(<<"3">>),
      Str(<<"e", "n", "d">>), Str(<<"1", "-", "2">>), Str(<<"3", "-", "1">>),
      Str(<<" ", "2">>), Str(<<"2", "-", "e", "n", "d">>) }

RECURSIVE JoinedTexts(_)
JoinedTexts(k) ==
    IF k = 1 THEN ListSegments
    ELSE LET shorter == JoinedTexts(k - 1) IN
         shorter \cup {p \o Str(<<",">>) \o seg : p \in shorter, seg \in ListSegments}

ListTexts == JoinedTexts(MaxSegs)

(***************************************************************************)
(* The calls.                                                              *)
(***************************************************************************)
NoRange == PageRange(End, None, "None")

\* PageRange::parse(s)
ParseRange ==
    /\ pc = "parse"
    /\ LET r == PageRange_parse(s) IN
       /\ ret' = r
       /\ range' = IF IsOk(r) THEN r.val ELSE range
       /\ pc' = "parsed"
    /\ UNCHANGED <<s, total_pages, ranges, idx, pages, labelVars, numeralVars, tocVars, input_bytes>>

\* range.expand(total_pages), on a parsed range or on one built directly
ExpandRange ==
    /\ \/ pc = "parsed" /\ IsOk(ret)
       \/ pc = "expand"
    /\ ret' = PageRange_expand(range, total_pages)
    /\ pc' = "expanded"
    /\ UNCHANGED <<s, total_pages, range, ranges, idx, pages, labelVars, numeralVars, tocVars, input_bytes>>

\* Vec::extend: the new elements are appended in order.
extend_unique(v, more) == v \o SelectSeq(more, LAMBDA x : \A k \in 1..Len(v) : v[k] # x)
extend(v, more) == v \o more

\* the call with the first segment expanded before the others are parsed
ListParse_first_expanded_early ==
    /\ pc = "list_call"
    /\ LET r == parse_page_ranges(s)
           first == PageRange_parse(trim(split(s, 44)[1]))
           early == IF IsOk(first) THEN PageRange_expand(first.val, total_pages) ELSE first
       IN
       IF IsErr(r)
       THEN /\ ret' = IF IsErr(early) THEN early ELSE r
            /\ pc' = "list_done"
            /\ UNCHANGED <<ranges, idx, pages>>
       ELSE /\ ranges' = r.val
            /\ idx' = 1
            /\ pages' = <<>>
            /\ pc' = "list_loop"
            /\ UNCHANGED ret
    /\ UNCHANGED <<s, total_pages, range, labelVars, numeralVars, tocVars, input_bytes>>

\* expand_page_ranges(s, total_pages): let ranges = parse_page_ranges(s)?;
\* let mut pages = Vec::new();
ListParse ==
    /\ pc = "list_call"
    /\ LET r == parse_page_ranges(s) IN
       IF IsErr(r)
       THEN /\ ret' = r
            /\ pc' = "list_done"
            /\ UNCHANGED <<ranges, idx, pages>>
       ELSE /\ ranges' = r.val
            /\ idx' = 1
            /\ pages' = <<>>
            /\ pc' = "list_loop"
            /\ UNCHANGED ret
    /\ UNCHANGED <<s, total_pages, range, labelVars, numeralVars, tocVars, input_bytes>>

\* one turn of the loop, with a failing expansion breaking out of the loop
\* instead of returning
ListExpand_keeps_partial ==
    /\ pc = "list_loop"
    /\ idx <= Len(ranges)
    /\ LET r == PageRange_expand(ranges[idx], total_pages) IN
       IF IsErr(r)
       THEN /\ ret' = Ok(pages)
            /\ pc' = "list_done"
            /\ UNCHANGED <<idx, pages>>
       ELSE /\ pages' = extend(pages, r.val)
            /\ idx' = idx + 1
            /\ UNCHANGED <<pc, ret>>
    /\ UNCHANGED <<s, total_pages, range, ranges, labelVars, numeralVars, tocVars, input_bytes>>

\* one turn of the loop: pages.extend(range.expand(total_pages)?);
ListExpand ==
    /\ pc = "list_loop"
    /\ idx <= Len(ranges)
    /\ LET r == PageRange_expand(ranges[idx], total_pages) IN
       IF IsErr(r)
       THEN /\ ret' = r
            /\ pc' = "list_done"
            /\ UNCHANGED <<idx, pages>>
       ELSE /\ pages' = extend(pages, r.val)
            /\ idx' = idx + 1
            /\ UNCHANGED <<pc, ret>>
    /\ UNCHANGED <<s, total_pages, range, ranges, labelVars, numeralVars, tocVars, input_bytes>>

\* Ok(pages)
ListReturn ==
    /\ pc = "list_loop"
    /\ idx > Len(ranges)
    /\ ret' = Ok(pages)
    /\ pc' = "list_done"
    /\ UNCHANGED <<s, total_pages, range, ranges, idx, pages, labelVars, numeralVars, tocVars, input_bytes>>

(***************************************************************************)
(* The object graph (lopdf::Object, lopdf::Document).  A dictionary is a   *)
(* function from its keys; a document holds its catalog (if any), its      *)
(* objects by id and its number of pages.                                  *)
(***************************************************************************)
Integer(n) == [tag |-> "Integer", int |-> n]
Reference(id) == [tag |-> "Reference", id |-> id]
Dictionary(d) == [tag |-> "Dictionary", d |-> d]
Array(a) == [tag |-> "Array", a |-> a]
Name(v) == [tag |-> "Name", name |-> v]
String(bytes) == [tag |-> "String", bytes |-> bytes]

EmptyDict == [key \in {} |-> key]

\* Dictionary::get(key)
Get(d, key) == IF key \in DOMAIN d THEN Some(d[key]) ELSE None

\* Document::get_dictionary(id): the object exists and is a dictionary.
get_dictionary(d, id) ==
    IF id \in DOMAIN d.objects /\ d.objects[id].tag = "Dictionary"
    THEN Some(d.objects[id].d)
    ELSE None

\* `n as u32` of an i64: the value modulo 2^width.
as_u32(n) == n % (UMax + 1)

(***************************************************************************)
(* src/pdf/page_labels.rs: rendering a number.                             *)
(***************************************************************************)
LabelStyle == {"Decimal", "LowerRoman", "UpperRoman", "LowerAlpha", "UpperAlpha", "None"}

PageLabelRange(start_page, st, prefix, start_value) ==
    [start_page |-> start_page, style |-> st, prefix |-> prefix, start_value |-> start_value]

PageLabel(p, label) == [physical_page |-> p, logical_label |-> label]

\* String::to_lowercase, on the ASCII letters the numerals are made of
to_lowercase(text) == [k \in 1..Len(text) |-> to_ascii_lowercase(text[k])]

\* the table without its subtractive pair for 4
RomanValues_without_four ==
    << <<1000, Str(<<"M">>)>>, <<900, Str(<<"C", "M">>)>>, <<500, Str(<<"D">>)>>,
       <<400, Str(<<"C", "D">>)>>, <<100, Str(<<"C">>)>>, <<90, Str(<<"X", "C">>)>>,
       <<50, Str(<<"L">>)>>, <<40, Str(<<"X", "L">>)>>, <<10, Str(<<"X">>)>>,
       <<9, Str(<<"I", "X">>)>>, <<5, Str(<<"V">>)>>, <<1, Str(<<"I">>)>> >>

\* the table `values` of to_roman
RomanValues ==
    << <<1000, Str(<<"M">>)>>, <<900, Str(<<"C", "M">>)>>, <<500, Str(<<"D">>)>>,
       <<400, Str(<<"C", "D">>)>>, <<100, Str(<<"C">>)>>, <<90, Str(<<"X", "C">>)>>,
       <<50, Str(<<"L">>)>>, <<40, Str(<<"X", "L">>)>>, <<10, Str(<<"X">>)>>,
       <<9, Str(<<"I", "X">>)>>, <<5, Str(<<"V">>)>>, <<4, Str(<<"I", "V">>)>>,
       <<1, Str(<<"I">>)>> >>

\* for (value, numeral) in values { while n >= value { push; n -= value } },
\* from entry k of the table on
RECURSIVE roman_loop(_, _)
roman_loop(n, k) ==
    IF k > Len(RomanValues) THEN <<>>
    ELSE IF n >= RomanValues[k][1]
         THEN RomanValues[k][2] \o roman_loop(n - RomanValues[k][1], k)
         ELSE roman_loop(n, k + 1)

to_roman(n) == IF n = 0 THEN Str(<<"0">>) ELSE roman_loop(n, 1)

\* the loop of to_alpha: prepend the letter of remaining % 26, stop below 26
RECURSIVE alpha_loop(_)
alpha_loop(remaining) ==
    LET letter == (remaining % 26) + 65 IN
    IF remaining < 26 THEN <<letter>>
    ELSE alpha_loop((remaining \div 26) - 1) \o <<letter>>

\* to_alpha without the conversion to a zero-indexed remainder
to_alpha_not_zero_indexed(n) == IF n = 0 THEN <<>> ELSE alpha_loop(n)

to_alpha(n) == IF n = 0 THEN <<>> ELSE alpha_loop(n - 1)

\* the `number_part` of compute_label
number_part(st, n) ==
    CASE st = "Decimal" -> to_string(n)
      [] st = "LowerRoman" -> to_lowercase(to_roman(n))
      [] st = "UpperRoman" -> to_roman(n)
      [] st = "LowerAlpha" -> to_lowercase(to_alpha(n))
      [] st = "UpperAlpha" -> to_alpha(n)
      [] st = "None" -> <<>>

(***************************************************************************)
(* src/pdf/page_labels.rs: decode_pdf_string.                              *)
(***************************************************************************)
\* bytes.chunks(2) read as big-endian u16, a last single byte dropped
RECURSIVE be_u16_units(_)
be_u16_units(bytes) ==
    IF Len(bytes) < 2 THEN <<>>
    ELSE <<bytes[1] * 256 + bytes[2]>> \o be_u16_units(SubSeq(bytes, 3, Len(bytes)))

\* String::from_utf16_lossy: a surrogate pair is one code point, an unpaired
\* surrogate is U+FFFD
RECURSIVE from_utf16_lossy(_)
from_utf16_lossy(units) ==
    IF units = <<>> THEN <<>>
    ELSE LET u == units[1] IN
         IF u \in 55296..56319 /\ Len(units) >= 2 /\ units[2] \in 56320..57343
         THEN <<65536 + (u - 55296) * 1024 + (units[2] - 56320)>>
                  \o from_utf16_lossy(SubSeq(units, 3, Len(units)))
         ELSE IF u \in 55296..57343
         THEN <<65533>> \o from_utf16_lossy(Tail(units))
         ELSE <<u>> \o from_utf16_lossy(Tail(units))

decode_pdf_string(bytes) ==
    IF Len(bytes) >= 2 /\ bytes[1] = 254 /\ bytes[2] = 255
    THEN from_utf16_lossy(be_u16_units(SubSeq(bytes, 3, Len(bytes))))
    ELSE bytes

(***************************************************************************)
(* src/pdf/page_labels.rs: the number tree.                                *)
(***************************************************************************)
label_style(label_dict) ==
    LET e == Get(label_dict, "S") IN
    IF e.tag = "Some" /\ e.val.tag = "Name"
    THEN CASE e.val.name = "D" -> "Decimal"
           [] e.val.name = "r" -> "LowerRoman"
           [] e.val.name = "R" -> "UpperRoman"
           [] e.val.name = "a" -> "LowerAlpha"
           [] e.val.name = "A" -> "UpperAlpha"
           [] OTHER -> "Decimal"
    ELSE "None"

label_prefix(label_dict) ==
    LET e == Get(label_dict, "P") IN
    IF e.tag = "Some" /\ e.val.tag = "String" THEN decode_pdf_string(e.val.bytes) ELSE <<>>

label_start_value(label_dict) ==
    LET e == Get(label_dict, "St") IN
    IF e.tag = "Some" /\ e.val.tag = "Integer" THEN as_u32(e.val.int) ELSE 1

\* for chunk in nums.chunks(2): the ranges pushed, in order
RECURSIVE parse_nums_array(_, _)
parse_nums_array(d, nums) ==
    IF Len(nums) < 2 THEN <<>>
    ELSE
      LET rest == parse_nums_array(d, SubSeq(nums, 3, Len(nums)))
          key == nums[1]
          val == nums[2]
          label_dict == IF val.tag = "Dictionary" THEN Some(val.d)
                        ELSE IF val.tag = "Reference" THEN get_dictionary(d, val.id)
                        ELSE None
      IN
      IF key.tag # "Integer" THEN rest
      ELSE IF label_dict.tag = "None" THEN rest
      ELSE <<PageLabelRange(as_u32(key.int), label_style(label_dict.val),
                            label_prefix(label_dict.val),
                            label_start_value(label_dict.val))>> \o rest

RECURSIVE sort_by_start_page(_)
\* the ranges left in the order the tree is read
sort_by_start_page_as_read(rs) == rs

\* ranges.sort_by_key(|r| r.start_page): a stable sort
sort_by_start_page(rs) ==
    IF rs = <<>> THEN <<>>
    ELSE LET sorted == sort_by_start_page(SubSeq(rs, 1, Len(rs) - 1))
             last == rs[Len(rs)]
             keep == Cardinality({k \in 1..Len(sorted) : sorted[k].start_page <= last.start_page})
         IN SubSeq(sorted, 1, keep) \o <<last>> \o SubSeq(sorted, keep + 1, Len(sorted))

RECURSIVE parse_number_tree(_, _)
RECURSIVE parse_kids(_, _)
parse_kids(d, kids) ==
    IF kids = <<>> THEN <<>>
    ELSE LET kid == kids[1]
             kid_dict == IF kid.tag = "Reference" THEN get_dictionary(d, kid.id) ELSE None
         IN (IF kid_dict.tag = "Some" THEN parse_number_tree(d, kid_dict.val) ELSE <<>>)
                \o parse_kids(d, Tail(kids))

parse_number_tree(d, dict) ==
    LET nums == Get(dict, "Nums")
        kids == Get(dict, "Kids")
        from_nums == IF nums.tag = "Some" /\ nums.val.tag = "Array"
                     THEN parse_nums_array(d, nums.val.a) ELSE <<>>
        from_kids == IF kids.tag = "Some" /\ kids.val.tag = "Array"
                     THEN parse_kids(d, kids.val.a) ELSE <<>>
    IN sort_by_start_page(from_nums \o from_kids)

(***************************************************************************)
(* src/pdf/page_labels.rs: compute_label, generate_default_labels.         *)
(***************************************************************************)
DefaultRange == PageLabelRange(0, "Decimal", <<>>, 1)

\* the first of the ranges with the greatest start_page <= page_index
applicable_range_first_of_ties(rs, page_index) ==
    LET hits == {k \in 1..Len(rs) : rs[k].start_page <= page_index} IN
    IF hits = {} THEN DefaultRange
    ELSE LET last == rs[CHOOSE k \in hits : \A j \in hits : j <= k] IN
         rs[CHOOSE k \in hits : /\ rs[k].start_page = last.start_page
                                 /\ \A j \in hits : rs[j].start_page = last.start_page => k <= j]

\* ranges.iter().rev().find(|r| r.start_page <= page_index)
applicable_range(rs, page_index) ==
    LET hits == {k \in 1..Len(rs) : rs[k].start_page <= page_index} IN
    IF hits = {} THEN DefaultRange
    ELSE rs[CHOOSE k \in hits : \A j \in hits : j <= k]

\* The label, or a panic when start_value + offset overflows in a build
\* with overflow checks; without them the sum wraps.
compute_label(rs, page_index, checks) ==
    LET r == applicable_range(rs, page_index)
        offset == page_index - r.start_page
        sum == r.start_value + offset
    IN IF sum > UMax /\ checks THEN [tag |-> "Panic"]
       ELSE Ok(r.prefix \o number_part(r.style, sum % (UMax + 1)))

generate_default_labels_zero_based(total) ==
    Ok([p \in 1..total |-> PageLabel(p, to_string(p - 1))])

generate_default_labels(total) == Ok([p \in 1..total |-> PageLabel(p, to_string(p))])

(***************************************************************************)
(* The documents the page-label calls are run on.                          *)
(***************************************************************************)
\* Object ids: the PageLabels root, two kids, a grandchild, a label
\* dictionary, an object that is no dictionary; BrokenId names no object.
RootId == 1
Kid1Id == 2
Kid2Id == 3
Kid3Id == 4
LabelDictId == 5
NonDictId == 6
BrokenId == 9

\* The label dictionary stored as an object of its own.
ReferencedLabelDict ==
    ("S" :> Name("a")) @@ ("P" :> String(<<254, 255, 0, 112, 216, 0>>))

\* Key/value pairs of a Nums array, well-formed and not.
NumsPairs ==
    { <<Integer(0), Dictionary("S" :> Name("D"))>>,
      <<Integer(1), Dictionary(("S" :> Name("r")) @@ ("St" :> Integer(2)))>>,
      <<Integer(2), Dictionary(("S" :> Name("A")) @@ ("P" :> String(Str(<<"A", "-">>)))
                                  @@ ("St" :> Integer(26)))>>,
      <<Integer(0), Dictionary(("S" :> Name("R")) @@ ("St" :> Integer(0)))>>,
      <<Integer(1), Dictionary(EmptyDict)>>,
      <<Integer(1), Reference(LabelDictId)>>,
      <<Integer(0 - 1), Dictionary("S" :> Name("D"))>>,
      <<Integer(0), Dictionary(("S" :> Name("D")) @@ ("St" :> Integer(0 - 1)))>>,
      <<Integer(UMax + 2), Dictionary(("S" :> Name("x")) @@ ("P" :> Integer(7))
                                         @@ ("St" :> Integer(UMax + 3)))>>,
      <<Name("k"), Dictionary("S" :> Name("D"))>>,
      <<Integer(1), Reference(BrokenId)>>,
      <<Integer(1), Reference(NonDictId)>>,
      <<Integer(1), Integer(7)>> }

\* The Nums arrays: at most k pairs, one after the other.
RECURSIVE NumsArrays(_)
NumsArrays(k) ==
    IF k = 0 THEN {<<>>}
    ELSE LET shorter == NumsArrays(k - 1) IN
         shorter \cup {a \o pair : a \in shorter, pair \in NumsPairs}

FixedObjects ==
    (LabelDictId :> Dictionary(ReferencedLabelDict)) @@ (NonDictId :> Array(<<>>))

\* The shapes of the number tree that holds the pairs of one Nums array.
TreeObjects(nums) ==
    LET n == Len(nums) \div 2
        first == SubSeq(nums, 1, IF n >= 1 THEN 2 ELSE 0)
        rest == SubSeq(nums, Len(first) + 1, Len(nums))
    IN
    { \* a leaf: everything in the root's Nums
      (RootId :> Dictionary("Nums" :> Array(nums))),
      \* a leaf whose Nums has an odd last element
      (RootId :> Dictionary("Nums" :> Array(nums \o <<Integer(0)>>))),
      \* the root holds the first pair, two kids the others, in reverse; the
      \* Kids array also holds an integer, a broken reference and a
      \* reference to an object that is no dictionary
      (RootId :> Dictionary(("Nums" :> Array(first))
            @@ ("Kids" :> Array(<<Integer(3), Reference(Kid2Id), Reference(BrokenId),
                                  Reference(NonDictId), Reference(Kid1Id)>>))))
        @@ (Kid1Id :> Dictionary("Nums" :> Array(SubSeq(rest, 1, IF rest = <<>> THEN 0 ELSE 2))))
        @@ (Kid2Id :> Dictionary("Nums" :> Array(SubSeq(rest, 3, Len(rest))))),
      \* two levels of Kids above the leaf
      (RootId :> Dictionary("Kids" :> Array(<<Reference(Kid1Id)>>)))
        @@ (Kid1Id :> Dictionary("Kids" :> Array(<<Reference(Kid3Id)>>)))
        @@ (Kid3Id :> Dictionary("Nums" :> Array(nums))),
      \* Nums and Kids that are no arrays
      (RootId :> Dictionary(("Nums" :> Integer(1)) @@ ("Kids" :> Name("k")))) }

Document(catalog, objects, n_pages) ==
    [catalog |-> catalog, objects |-> objects, n_pages |-> n_pages]

\* Documents whose PageLabels entry is a reference to a number tree.
TreeDocuments ==
    { Document(Some("PageLabels" :> Reference(RootId)), objs @@ FixedObjects, n) :
        objs \in UNION {TreeObjects(nums) : nums \in NumsArrays(MaxPairs)},
        n \in 0..MaxDocPages }

\* Catalogs without a readable PageLabels entry: no entry, an inline
\* dictionary, another tag, a broken reference, a reference to an object
\* that is no dictionary.
PlainCatalogs(nums) ==
    { EmptyDict,
      "PageLabels" :> Dictionary("Nums" :> Array(nums)),
      "PageLabels" :> Integer(1),
      "PageLabels" :> Reference(BrokenId),
      "PageLabels" :> Reference(NonDictId) }

PlainDocuments ==
    UNION { { Document(Some(catalog),
                       (RootId :> Dictionary("Nums" :> Array(nums))) @@ FixedObjects, n) :
                catalog \in PlainCatalogs(nums), n \in 0..MaxPlainPages } :
            nums \in NumsArrays(1) }

\* A document without catalog has no pages.
NoCatalogDocument == Document(None, FixedObjects, 0)

Documents == TreeDocuments \cup PlainDocuments \cup {NoCatalogDocument}

(***************************************************************************)
(* src/pdf/page_labels.rs: extract_page_labels_from_doc.                   *)
(***************************************************************************)
\* let total_pages = ...; let catalog = doc.catalog()?; the PageLabels entry
\* and its dictionary; let ranges = parse_number_tree(doc, dict)?;
LabelsStart ==
    /\ pc = "labels_call"
    /\ total_pages' = doc.n_pages
    /\ IF doc.catalog.tag = "None"
       THEN /\ ret' = Err("CatalogError", "no catalog")
            /\ pc' = "labels_done"
            /\ UNCHANGED <<label_ranges, physical_page, labels>>
       ELSE
         LET entry == Get(doc.catalog.val, "PageLabels")
             dict == IF entry.tag = "Some" /\ entry.val.tag = "Reference"
                     THEN get_dictionary(doc, entry.val.id) ELSE None
         IN
         IF dict.tag = "None"
         THEN /\ ret' = generate_default_labels(doc.n_pages)
              /\ pc' = "labels_done"
              /\ UNCHANGED <<label_ranges, physical_page, labels>>
         ELSE /\ label_ranges' = parse_number_tree(doc, dict.val)
              /\ labels' = <<>>
              /\ physical_page' = 1
              /\ pc' = "labels_loop"
              /\ UNCHANGED ret
    /\ UNCHANGED <<doc, overflow_checks, rangeVars, numeralVars, tocVars, input_bytes>>

\* one turn of `for physical_page in 1..=total_pages`
LabelsStep ==
    /\ pc = "labels_loop"
    /\ physical_page <= total_pages
    /\ LET label == compute_label(label_ranges, physical_page - 1, overflow_checks) IN
       IF label.tag = "Panic"
       THEN /\ pc' = "panicked"
            /\ UNCHANGED <<labels, physical_page>>
       ELSE /\ labels' = Append(labels, PageLabel(physical_page, label.val))
            /\ physical_page' = physical_page + 1
            /\ UNCHANGED pc
    /\ UNCHANGED <<total_pages, ret, doc, overflow_checks, label_ranges, rangeVars, numeralVars, tocVars, input_bytes>>

\* Ok(labels)
LabelsReturn ==
    /\ pc = "labels_loop"
    /\ physical_page > total_pages
    /\ ret' = Ok(labels)
    /\ pc' = "labels_done"
    /\ UNCHANGED <<total_pages, labelVars, rangeVars, numeralVars, tocVars, input_bytes>>

\* the number_part of a label, in every style
RenderNumber ==
    /\ pc = "render"
    /\ ret' = Ok(number_part(style, value))
    /\ pc' = "rendered"
    /\ UNCHANGED <<total_pages, labelVars, rangeVars, numeralVars, tocVars, input_bytes>>

(***************************************************************************)
(* src/pdf/toc.rs: the table of contents and its flattening.               *)
(***************************************************************************)
TocEntry(title, page, level, children) ==
    [title |-> title, page |-> page, level |-> level, children |-> children]

\* a flat entry that does not keep the level
FlatTocEntry_without_level(title, page, level) == [title |-> title, page |-> page, level |-> 0]

FlatTocEntry(title, page, level) == [title |-> title, page |-> page, level |-> level]

RECURSIVE flatten_toc_recursive(_)
\* the traversal with the children of an entry put after its later siblings
flatten_toc_recursive_siblings_first(entries) ==
    IF entries = <<>> THEN <<>>
    ELSE LET entry == Head(entries) IN
         <<FlatTocEntry(entry.title, entry.page, entry.level)>>
             \o flatten_toc_recursive(Tail(entries))
             \o flatten_toc_recursive(entry.children)

\* for entry in entries { result.push(..); flatten_toc_recursive(&entry.children, result) }
flatten_toc_recursive(entries) ==
    IF entries = <<>> THEN <<>>
    ELSE LET entry == Head(entries) IN
         <<FlatTocEntry(entry.title, entry.page, entry.level)>>
             \o flatten_toc_recursive(entry.children)
             \o flatten_toc_recursive(Tail(entries))

flatten_toc(entries) == flatten_toc_recursive(entries)

\* TOC trees built directly (the fields are public): every forest of at
\* most MaxTocNodes entries, each entry with one of four title/page/level
\* contents, whatever its depth; and the tree A{B, C{D}}.
EntryContents ==
    { FlatTocEntry(Str(<<"A">>), Some(1), 0), FlatTocEntry(Str(<<"B">>), Some(2), 1),
      FlatTocEntry(Str(<<"C">>), None, 1), FlatTocEntry(Str(<<"D">>), Some(1), 2) }

RECURSIVE TocForestsOfSize(_)
TocForestsOfSize(n) ==
    IF n = 0 THEN {<<>>}
    ELSE UNION { { <<TocEntry(c.title, c.page, c.level, kids)>> \o rest :
                       c \in EntryContents,
                       kids \in TocForestsOfSize(k),
                       rest \in TocForestsOfSize(n - 1 - k) } : k \in 0..(n - 1) }

\* The tree A{B, C{D}}.
TreeABCD ==
    << TocEntry(Str(<<"A">>), Some(1), 0,
           << TocEntry(Str(<<"B">>), Some(2), 1, <<>>),
              TocEntry(Str(<<"C">>), None, 1,
                  << TocEntry(Str(<<"D">>), Some(1), 2, <<>>) >>) >>) >>

TocForests == UNION {TocForestsOfSize(n) : n \in 0..MaxTocNodes} \cup {TreeABCD}

\* flatten_toc(&entries) on a returned or a built tree
FlattenToc ==
    /\ pc = "toc_done"
    /\ IsOk(ret)
    /\ flat' = flatten_toc(ret.val)
    /\ pc' = "flattened"
    /\ UNCHANGED <<total_pages, ret, stack, visits, input_bytes, rangeVars, labelVars, numeralVars>>

(***************************************************************************)
(* src/pdf/toc.rs: destinations.  A call that recurses without end (a name *)
(* whose target is the same name again, a reference to itself) overflows   *)
(* the stack; the recursion is followed MaxResolveDepth calls deep.        *)
(***************************************************************************)
StackOverflow == [tag |-> "StackOverflow"]

\* Document::get_object(id)
get_object(d, id) == IF id \in DOMAIN d.objects THEN Some(d.objects[id]) ELSE None

\* Document::get_pages(): page number k is the object PageObjectId(k)
PageObjectId(k) == 100 + k
get_pages(d) == [k \in 1..d.n_pages |-> PageObjectId(k)]

\* (ObjectId, page number) in page-number order
build_page_map(d) == [k \in 1..d.n_pages |-> <<get_pages(d)[k], k>>]

get_page_from_dest_array(arr, page_map) ==
    IF arr # <<>> /\ arr[1].tag = "Reference"
          /\ \E k \in 1..Len(page_map) : page_map[k][1] = arr[1].id
    THEN LET k == CHOOSE k \in 1..Len(page_map) :
                      /\ page_map[k][1] = arr[1].id
                      /\ \A j \in 1..(k - 1) : page_map[j][1] # arr[1].id
         IN Some(page_map[k][2])
    ELSE None

\* The bytes of a name (the names of the documents have one character).
as_slice(name) == <<B(name)>>

\* Dictionary::get(name) with the key given as bytes
get_bytes(dict, name) ==
    IF \E key \in DOMAIN dict : as_slice(key) = name
    THEN Some(dict[CHOOSE key \in DOMAIN dict : as_slice(key) = name])
    ELSE None

\* decode_pdf_string of toc.rs
toc_decode_pdf_string(bytes) ==
    IF Len(bytes) >= 2 /\ bytes[1] = 254 /\ bytes[2] = 255
    THEN from_utf16_lossy(be_u16_units(SubSeq(bytes, 3, Len(bytes))))
    ELSE [k \in 1..Len(bytes) |-> bytes[k]]

RECURSIVE resolve_destination(_, _, _, _)
RECURSIVE search_name_tree(_, _, _, _, _)

\* the lookup that asks the legacy Dests dictionary first
resolve_named_destination_legacy_first(d, name, page_map, depth) ==
    IF d.catalog.tag # "Some" THEN None
    ELSE LET catalog == d.catalog.val
             names == Get(catalog, "Names")
             names_dict == IF names.tag = "Some" /\ names.val.tag = "Reference"
                           THEN get_dictionary(d, names.val.id) ELSE None
             dests == IF names_dict.tag = "Some" THEN Get(names_dict.val, "Dests") ELSE None
             legacy == Get(catalog, "Dests")
             dests_dict == IF legacy.tag = "Some" /\ legacy.val.tag = "Reference"
                           THEN get_dictionary(d, legacy.val.id) ELSE None
             dest == IF dests_dict.tag = "Some" THEN get_bytes(dests_dict.val, name) ELSE None
         IN IF dest.tag = "Some" THEN resolve_destination(d, dest.val, page_map, depth)
            ELSE IF dests.tag = "Some" /\ dests.val.tag = "Reference"
            THEN search_name_tree(d, dests.val.id, name, page_map, depth)
            ELSE None

resolve_named_destination(d, name, page_map, depth) ==
    IF d.catalog.tag # "Some" THEN None
    ELSE LET catalog == d.catalog.val
             names == Get(catalog, "Names")
             names_dict == IF names.tag = "Some" /\ names.val.tag = "Reference"
                           THEN get_dictionary(d, names.val.id) ELSE None
             dests == IF names_dict.tag = "Some" THEN Get(names_dict.val, "Dests") ELSE None
             \* if let Some(page) = search_name_tree(..) { return Some(page) }
             found == IF dests.tag = "Some" /\ dests.val.tag = "Reference"
                      THEN search_name_tree(d, dests.val.id, name, page_map, depth)
                      ELSE None
             legacy == Get(catalog, "Dests")
             dests_dict == IF legacy.tag = "Some" /\ legacy.val.tag = "Reference"
                           THEN get_dictionary(d, legacy.val.id) ELSE None
             dest == IF dests_dict.tag = "Some" THEN get_bytes(dests_dict.val, name) ELSE None
         IN IF found.tag # "None" THEN found
            ELSE IF dest.tag = "Some" THEN resolve_destination(d, dest.val, page_map, depth)
            ELSE None

resolve_destination(d, dest, page_map, depth) ==
    IF depth = 0 THEN StackOverflow
    ELSE CASE dest.tag = "String" ->
                  resolve_named_destination(d, dest.bytes, page_map, depth - 1)
           [] dest.tag = "Name" ->
                  resolve_named_destination(d, as_slice(dest.name), page_map, depth - 1)
           [] dest.tag = "Array" -> get_page_from_dest_array(dest.a, page_map)
           [] dest.tag = "Reference" ->
                  LET obj == get_object(d, dest.id) IN
                  IF obj.tag = "Some" THEN resolve_destination(d, obj.val, page_map, depth - 1)
                  ELSE None
           [] OTHER -> None

search_name_tree(d, node_id, name, page_map, depth) ==
    LET node == get_dictionary(d, node_id) IN
    IF depth = 0 THEN StackOverflow
    ELSE IF node.tag = "None" THEN None
    ELSE LET dict == node.val
             names == IF "Names" \in DOMAIN dict /\ dict["Names"].tag = "Array"
                      THEN dict["Names"].a ELSE <<>>
             \* the pairs (chunks of two) whose key is the string `name`
             hits == {k \in 1..(Len(names) \div 2) :
                         /\ names[2 * k - 1].tag = "String"
                         /\ names[2 * k - 1].bytes = name}
             kids == IF "Kids" \in DOMAIN dict /\ dict["Kids"].tag = "Array"
                     THEN dict["Kids"].a ELSE <<>>
             kid_result(k) == IF kids[k].tag = "Reference"
                              THEN search_name_tree(d, kids[k].id, name, page_map, depth - 1)
                              ELSE None
             \* the kids whose search gives a page (or never returns)
             found == {k \in 1..Len(kids) : kid_result(k).tag # "None"}
         IN IF hits # {}
            THEN LET first == CHOOSE k \in hits : \A j \in hits : k <= j
                 IN resolve_destination(d, names[2 * first], page_map, depth - 1)
            ELSE IF found # {}
            THEN kid_result(CHOOSE k \in found : \A j \in found : k <= j)
            ELSE None

\* the destination of an action dictionary: S is the name GoTo and D exists
goto_destination_any_subtype(action_dict) == Get(action_dict, "D")

goto_destination(action_dict) ==
    IF "S" \in DOMAIN action_dict /\ action_dict["S"].tag = "Name"
          /\ action_dict["S"].name = "GoTo"
    THEN Get(action_dict, "D")
    ELSE None

\* the page of the action when the Dest entry gives none
get_destination_page_action_as_fallback(d, dict, page_map) ==
    LET a == Get(dict, "A")
        action_dict == IF a.tag = "Some" /\ a.val.tag = "Reference"
                       THEN get_dictionary(d, a.val.id)
                       ELSE IF a.tag = "Some" /\ a.val.tag = "Dictionary"
                       THEN Some(a.val.d)
                       ELSE None
        dest == IF action_dict.tag = "Some" THEN goto_destination(action_dict.val) ELSE None
        direct == IF "Dest" \in DOMAIN dict
                  THEN resolve_destination(d, dict["Dest"], page_map, MaxResolveDepth)
                  ELSE None
    IN IF direct.tag # "None" THEN direct
       ELSE IF dest.tag = "Some"
       THEN resolve_destination(d, dest.val, page_map, MaxResolveDepth)
       ELSE None

get_destination_page(d, dict, page_map) ==
    LET a == Get(dict, "A")
        action_dict == IF a.tag = "Some" /\ a.val.tag = "Reference"
                       THEN get_dictionary(d, a.val.id)
                       ELSE IF a.tag = "Some" /\ a.val.tag = "Dictionary"
                       THEN Some(a.val.d)
                       ELSE None
        dest == IF action_dict.tag = "Some" THEN goto_destination(action_dict.val) ELSE None
    IN IF "Dest" \in DOMAIN dict
       THEN resolve_destination(d, dict["Dest"], page_map, MaxResolveDepth)
       ELSE IF dest.tag = "Some"
       THEN resolve_destination(d, dest.val, page_map, MaxResolveDepth)
       ELSE None

outline_title(dict) ==
    IF "Title" \in DOMAIN dict /\ dict["Title"].tag = "String"
    THEN toc_decode_pdf_string(dict["Title"].bytes)
    ELSE Str(<<"U", "n", "t", "i", "t", "l", "e", "d">>)

(***************************************************************************)
(* src/pdf/toc.rs: extract_toc_from_doc and parse_outline_items.  Every    *)
(* running call of parse_outline_items is a frame of `stack`: its entries, *)
(* its current_id, its level and, while the children of an item are read,  *)
(* the item that waits for them.                                           *)
(***************************************************************************)
\* a call for the children that is given the level of their parent
Frame_at_parent_level(entries, current_id, level, pending) ==
    [entries |-> entries, current_id |-> current_id,
     level |-> IF level > 0 THEN level - 1 ELSE 0, pending |-> pending]

Frame(entries, current_id, level, pending) ==
    [entries |-> entries, current_id |-> current_id, level |-> level, pending |-> pending]

\* dict.get(key) when it is a reference, for First and Next
reference_at(dict, key) ==
    IF key \in DOMAIN dict /\ dict[key].tag = "Reference" THEN Some(dict[key].id) ELSE None

\* The traversal is followed for at most VisitCap items: more than a
\* traversal of an outline without cycle reads.
VisitCap == Pow2(MaxOutlineNodes)

\* extract_toc_from_doc with `doc.get_dictionary(outlines_ref)?` for the outline root
TocStart_unresolved_root_fails ==
    /\ pc = "toc_call"
    /\ LET outlines_ref == IF doc.catalog.tag = "Some"
                           THEN reference_at(doc.catalog.val, "Outlines") ELSE None
           outlines == IF outlines_ref.tag = "Some"
                       THEN get_dictionary(doc, outlines_ref.val) ELSE None
           first_ref == IF outlines.tag = "Some" THEN reference_at(outlines.val, "First")
                        ELSE None
       IN IF doc.catalog.tag = "None"
          THEN /\ ret' = Err("CatalogError", "Failed to get document catalog")
               /\ pc' = "toc_done"
               /\ UNCHANGED stack
          ELSE IF outlines_ref.tag = "Some" /\ outlines.tag = "None"
          THEN /\ ret' = Err("ObjectError", "outline root")
               /\ pc' = "toc_done"
               /\ UNCHANGED stack
          ELSE IF first_ref.tag = "None"
          THEN /\ ret' = Ok(<<>>)
               /\ pc' = "toc_done"
               /\ UNCHANGED stack
          ELSE /\ stack' = <<Frame(<<>>, first_ref, 0, None)>>
               /\ pc' = "toc_walk"
               /\ UNCHANGED ret
    /\ UNCHANGED <<total_pages, visits, flat, input_bytes, rangeVars, labelVars, numeralVars>>

\* extract_toc_from_doc up to the call of parse_outline_items
TocStart ==
    /\ pc = "toc_call"
    /\ LET outlines_ref == IF doc.catalog.tag = "Some"
                           THEN reference_at(doc.catalog.val, "Outlines") ELSE None
           outlines == IF outlines_ref.tag = "Some"
                       THEN get_dictionary(doc, outlines_ref.val) ELSE None
           first_ref == IF outlines.tag = "Some" THEN reference_at(outlines.val, "First")
                        ELSE None
       IN IF doc.catalog.tag = "None"
          THEN /\ ret' = Err("CatalogError", "Failed to get document catalog")
               /\ pc' = "toc_done"
               /\ UNCHANGED stack
          ELSE IF first_ref.tag = "None"
          THEN /\ ret' = Ok(<<>>)
               /\ pc' = "toc_done"
               /\ UNCHANGED stack
          ELSE /\ stack' = <<Frame(<<>>, first_ref, 0, None)>>
               /\ pc' = "toc_walk"
               /\ UNCHANGED ret
    /\ UNCHANGED <<total_pages, visits, flat, input_bytes, rangeVars, labelVars, numeralVars>>

\* one turn of `while let Some(id) = current_id`, up to the call that reads
\* the children or, without children, to the end of the turn
OutlineVisit ==
    /\ pc = "toc_walk"
    /\ visits < VisitCap
    /\ LET top == stack[Len(stack)]
           below == SubSeq(stack, 1, Len(stack) - 1)
       IN
       /\ top.current_id.tag = "Some"
       /\ LET node == get_dictionary(doc, top.current_id.val) IN
          IF node.tag = "None"
          THEN \* break
               /\ stack' = Append(below, [top EXCEPT !.current_id = None])
               /\ UNCHANGED <<pc, visits>>
          ELSE LET dict == node.val
                   title == outline_title(dict)
                   page == get_destination_page(doc, dict, build_page_map(doc))
                   child_ref == reference_at(dict, "First")
                   next == reference_at(dict, "Next")
               IN IF page.tag = "StackOverflow"
                  THEN /\ pc' = "crashed"
                       /\ UNCHANGED <<stack, visits>>
                  ELSE IF child_ref.tag = "Some"
                  THEN /\ stack' = Append(below, [top EXCEPT !.pending =
                                        Some([title |-> title, page |-> page, next |-> next])])
                                      \o <<Frame(<<>>, child_ref, top.level + 1, None)>>
                       /\ visits' = visits + 1
                       /\ UNCHANGED pc
                  ELSE /\ stack' = Append(below,
                              [top EXCEPT !.entries = Append(@, TocEntry(title, page, top.level, <<>>)),
                                          !.current_id = next])
                       /\ visits' = visits + 1
                       /\ UNCHANGED pc
    /\ UNCHANGED <<total_pages, ret, flat, input_bytes, rangeVars, labelVars, numeralVars>>

\* Ok(entries) of a call of parse_outline_items: the caller pushes the item
\* that waited for its children and goes on to its Next; the first call
\* gives the result of extract_toc_from_doc
OutlineReturn ==
    /\ pc = "toc_walk"
    /\ LET top == stack[Len(stack)] IN
       /\ top.current_id.tag = "None"
       /\ IF Len(stack) = 1
          THEN /\ ret' = Ok(top.entries)
               /\ stack' = <<>>
               /\ pc' = "toc_done"
          ELSE LET caller == stack[Len(stack) - 1]
                   item == caller.pending.val
               IN /\ stack' = Append(SubSeq(stack, 1, Len(stack) - 2),
                          [caller EXCEPT
                              !.entries = Append(@, TocEntry(item.title, item.page,
                                                             caller.level, top.entries)),
                              !.current_id = item.next,
                              !.pending = None])
                  /\ UNCHANGED <<pc, ret>>
    /\ UNCHANGED <<total_pages, visits, flat, input_bytes, rangeVars, labelVars, numeralVars>>

(***************************************************************************)
(* The documents the outline calls are run on.                             *)
(***************************************************************************)
\* Object ids: the outline root (item i is the object OutlinesId + i), a
\* destination array, two actions, the Names dictionary, the name tree's root
\* and two kids, the legacy Dests dictionary.
OutlinesId == 20
OutlineItemId(i) == OutlinesId + i
ObjectIds ==
    [dest |-> 30, action |-> 31, launch |-> 32, names |-> 33, tree |-> 34, kid1 |-> 35,
     kid2 |-> 36, legacy |-> 37]

\* A destination array of page k.
PageDest(k) == Array(<<Reference(PageObjectId(k)), Name("Fit")>>)

\* The links of an outline of n items: item 1 is the root's First, and every
\* later item is the First or the Next of an earlier one.
RECURSIVE OutlineTrees(_)
OutlineTrees(n) ==
    IF n = 1 THEN {EmptyDict}
    ELSE UNION { { links @@ (slot :> Reference(OutlineItemId(n))) :
                       slot \in ((1..(n - 1)) \X {"First", "Next"}) \ DOMAIN links } :
                 links \in OutlineTrees(n - 1) }

\* ... and possibly one more link: to any item (back to an item of its own
\* chain, or to an item that another link reaches), to an object that is no
\* dictionary, to no object, or an entry that is no reference.
OutlineLinks(n) ==
    LET targets == {Reference(OutlineItemId(j)) : j \in 1..n}
                       \cup {Reference(NonDictId), Reference(BrokenId), Integer(0)}
    IN OutlineTrees(n) \cup
       UNION { { links @@ (slot :> target) :
                     slot \in ((1..n) \X {"First", "Next"}) \ DOMAIN links,
                     target \in targets } :
               links \in OutlineTrees(n) }

\* Item i: the title is the i-th capital letter, the destination one of
\* the two pages.
OutlineItem(i, links) ==
    ("Title" :> String(<<64 + i>>)) @@ ("Dest" :> PageDest(1 + (i % 2)))
        @@ [key \in {k \in {"First", "Next"} : <<i, k>> \in DOMAIN links} |-> links[<<i, key>>]]

OutlinedCatalog == "Outlines" :> Reference(OutlinesId)

OutlineDocuments ==
    UNION { { Document(Some(OutlinedCatalog),
                  (OutlinesId :> Dictionary("First" :> Reference(OutlineItemId(1))))
                      @@ [id \in {OutlineItemId(i) : i \in 1..n} |->
                              Dictionary(OutlineItem(id - OutlinesId, links))]
                      @@ FixedObjects,
                  2) :
                links \in OutlineLinks(n) } :
            n \in 1..MaxOutlineNodes }

\* Documents whose outline is missing or unreadable at the root: no
\* catalog; no Outlines entry, an integer, an inline dictionary, a broken
\* reference, a reference to an object that is no dictionary; a root
\* without First, with a First that is no reference, with a First that
\* leads to no object or to an object that is no dictionary.
RootDocuments ==
    LET item == OutlineItemId(1) :> Dictionary(OutlineItem(1, EmptyDict))
        root(dict) == (OutlinesId :> Dictionary(dict)) @@ item @@ FixedObjects
    IN { Document(None, root("First" :> Reference(OutlineItemId(1))), 0) }
       \cup { Document(Some(catalog), root("First" :> Reference(OutlineItemId(1))), 2) :
                  catalog \in { EmptyDict,
                                "Outlines" :> Integer(OutlinesId),
                                "Outlines" :> Dictionary("First" :> Reference(OutlineItemId(1))),
                                "Outlines" :> Reference(BrokenId),
                                "Outlines" :> Reference(NonDictId) } }
       \cup { Document(Some(OutlinedCatalog), root(dict), 2) :
                  dict \in { EmptyDict,
                             "Last" :> Reference(OutlineItemId(1)),
                             "First" :> Integer(OutlineItemId(1)),
                             "First" :> Dictionary(OutlineItem(1, EmptyDict)),
                             "First" :> Reference(BrokenId),
                             "First" :> Reference(NonDictId) } }

\* What an item says about its destination: a Dest entry (a page array,
\* arrays without a page, a reference to an array, a broken reference,
\* another tag, a name as string and as name object), an A entry (inline or
\* referenced; GoTo, another subtype, no S, an S that is no name, no D; no
\* dictionary at all), both entries, or neither.
ItemDestinations ==
    LET goto(dest) == Dictionary(("S" :> Name("GoTo")) @@ ("D" :> dest)) IN
    { "Dest" :> PageDest(1),
      "Dest" :> Array(<<>>),
      "Dest" :> Array(<<Reference(BrokenId), Name("Fit")>>),
      "Dest" :> Array(<<Integer(1)>>),
      "Dest" :> Reference(ObjectIds.dest),
      "Dest" :> Reference(BrokenId),
      "Dest" :> Integer(1),
      "Dest" :> String(Str(<<"a">>)),
      "Dest" :> Name("a"),
      "Dest" :> Name("b"),
      "A" :> goto(PageDest(1)),
      "A" :> goto(Reference(ObjectIds.dest)),
      "A" :> goto(String(Str(<<"a">>))),
      "A" :> Dictionary(("S" :> Name("URI")) @@ ("D" :> PageDest(1))),
      "A" :> Dictionary("D" :> PageDest(1)),
      "A" :> Dictionary("S" :> Name("GoTo")),
      "A" :> Dictionary(("S" :> String(Str(<<"G", "o", "T", "o">>))) @@ ("D" :> PageDest(1))),
      "A" :> Reference(ObjectIds.action),
      "A" :> Reference(ObjectIds.launch),
      "A" :> Reference(BrokenId),
      "A" :> Reference(NonDictId),
      "A" :> Integer(1),
      ("Dest" :> Array(<<>>)) @@ ("A" :> goto(PageDest(1))),
      ("Dest" :> PageDest(2)) @@ ("A" :> goto(PageDest(1))),
      ("Dest" :> Name("b")) @@ ("A" :> Reference(ObjectIds.action)),
      EmptyDict }

\* The titles: a string, a UTF-16 string, no entry, an entry that is no string.
ItemTitles ==
    { "Title" :> String(Str(<<"A">>)),
      "Title" :> String(<<254, 255, 0, 66, 216, 0>>),
      EmptyDict,
      "Title" :> Name("A") }

\* Where the names `a` and `b` are defined: the catalog's entries and the
\* objects behind them.
NameDefinitions ==
    LET names(dests) == ObjectIds.names :> Dictionary("Dests" :> dests)
        tree(dict) == ObjectIds.tree :> Dictionary(dict)
        key(c) == String(Str(<<c>>))
        modern == "Names" :> Reference(ObjectIds.names)
        legacy == "Dests" :> Reference(ObjectIds.legacy)
        in_tree(pairs) == names(Reference(ObjectIds.tree)) @@ tree("Names" :> Array(pairs))
        in_legacy(dict) == ObjectIds.legacy :> Dictionary(dict)
        def(catalog, objects) == [catalog |-> catalog, objects |-> objects]
    IN
    { \* nowhere
      def(EmptyDict, EmptyDict),
      \* in the name tree only
      def(modern, in_tree(<<key("a"), PageDest(1)>>)),
      \* in the legacy dictionary only
      def(legacy, in_legacy("a" :> PageDest(2))),
      \* in both, with different targets
      def(modern @@ legacy, in_tree(<<key("a"), PageDest(1)>>) @@ in_legacy("a" :> PageDest(2))),
      \* in both, the name tree's target without a page
      def(modern @@ legacy, in_tree(<<key("a"), Array(<<>>)>>) @@ in_legacy("a" :> PageDest(2))),
      \* another name in the tree, the name in the legacy dictionary
      def(modern @@ legacy, in_tree(<<key("b"), PageDest(1)>>) @@ in_legacy("a" :> PageDest(2))),
      \* in the kids of the tree, twice in the first kid and once in the second
      def(modern,
          names(Reference(ObjectIds.tree))
            @@ tree(("Names" :> Array(<<key("b"), PageDest(2)>>))
                      @@ ("Kids" :> Array(<<Integer(0), Reference(BrokenId),
                                            Reference(ObjectIds.kid1),
                                            Reference(ObjectIds.kid2)>>)))
            @@ (ObjectIds.kid1 :> Dictionary("Names" :>
                    Array(<<key("a"), PageDest(1), key("a"), PageDest(2)>>)))
            @@ (ObjectIds.kid2 :> Dictionary("Names" :> Array(<<key("a"), PageDest(2)>>)))),
      \* in two kids, the first kid's target without a page
      def(modern,
          names(Reference(ObjectIds.tree))
            @@ tree("Kids" :> Array(<<Reference(ObjectIds.kid1), Reference(ObjectIds.kid2)>>))
            @@ (ObjectIds.kid1 :> Dictionary("Names" :> Array(<<key("a"), Array(<<>>)>>)))
            @@ (ObjectIds.kid2 :> Dictionary("Names" :> Array(<<key("a"), PageDest(2)>>)))),
      \* the name's target is the name itself
      def(modern, in_tree(<<key("a"), key("a")>>)),
      \* an inline Names dictionary; the legacy dictionary maps a to the name b
      def(("Names" :> Dictionary("Dests" :> Reference(ObjectIds.tree))) @@ legacy,
          tree("Names" :> Array(<<key("a"), PageDest(2)>>))
            @@ in_legacy(("a" :> Name("b")) @@ ("b" :> PageDest(1)))),
      \* a Names array with keys that are no strings and an odd last element
      def(modern, in_tree(<<Integer(1), PageDest(2), Name("a"), PageDest(2),
                            key("a"), PageDest(1), key("b")>>)),
      \* a Dests entry of the Names dictionary that is no reference
      def(modern, names(Dictionary("Names" :> Array(<<key("a"), PageDest(1)>>)))),
      \* an inline legacy dictionary
      def("Dests" :> Dictionary("a" :> PageDest(2)), EmptyDict),
      \* the name tree's target is a reference to an array
      def(modern @@ legacy,
          in_tree(<<key("a"), Reference(ObjectIds.dest)>>) @@ in_legacy("a" :> PageDest(1))) }

\* Documents with one outline item.
DestinationDocuments ==
    { Document(Some(OutlinedCatalog @@ def.catalog),
          (OutlinesId :> Dictionary("First" :> Reference(OutlineItemId(1))))
            @@ (OutlineItemId(1) :> Dictionary(title @@ dest))
            @@ (ObjectIds.dest :> PageDest(2))
            @@ (ObjectIds.action :> Dictionary(("S" :> Name("GoTo")) @@ ("D" :> Name("a"))))
            @@ (ObjectIds.launch :> Dictionary(("S" :> Name("Launch")) @@ ("D" :> PageDest(1))))
            @@ def.objects @@ FixedObjects,
          2) :
        title \in ItemTitles, dest \in ItemDestinations, def \in NameDefinitions }

TocDocuments == OutlineDocuments \cup RootDocuments \cup DestinationDocuments

(***************************************************************************)
(* src/pdf/document.rs: get_string_from_dict and decode_pdf_string.        *)
(***************************************************************************)
\* String::from_utf16(..).ok(): a surrogate pair is one code point, an
\* unpaired surrogate makes the whole result None
RECURSIVE from_utf16(_)
from_utf16(units) ==
    IF units = <<>> THEN Some(<<>>)
    ELSE LET u == units[1] IN
         IF u \in 55296..56319 /\ Len(units) >= 2 /\ units[2] \in 56320..57343
         THEN LET rest == from_utf16(SubSeq(units, 3, Len(units))) IN
              IF rest.tag = "None" THEN None
              ELSE Some(<<65536 + (u - 55296) * 1024 + (units[2] - 56320)>> \o rest.val)
         ELSE IF u \in 55296..57343
         THEN None
         ELSE LET rest == from_utf16(Tail(units)) IN
              IF rest.tag = "None" THEN None ELSE Some(<<u>> \o rest.val)

document_decode_pdf_string(bytes) ==
    IF Len(bytes) >= 2 /\ bytes[1] = 254 /\ bytes[2] = 255
    THEN from_utf16(be_u16_units(SubSeq(bytes, 3, Len(bytes))))
    ELSE Some([k \in 1..Len(bytes) |-> bytes[k]])

get_string_from_dict(dict, key) ==
    IF key \in DOMAIN dict /\ dict[key].tag = "String"
    THEN document_decode_pdf_string(dict[key].bytes)
    ELSE None

\* The bytes of the strings: NUL, `A`, the first high surrogate's and the
\* first low surrogate's high byte, and the two bytes of the byte-order mark.
ByteValues == {0, 65, 216, 220, 254, 255}

ByteStrings == UNION {[1..n -> ByteValues] : n \in 0..MaxBytes}

\* One string read as the title of an outline item (toc.rs), as the prefix of
\* a page label (page_labels.rs) and as the title of the info dictionary
\* (document.rs).
DecodeStrings ==
    /\ pc = "decode_call"
    /\ ret' = [tag |-> "Decoded",
               title |-> outline_title("Title" :> String(input_bytes)),
               prefix |-> label_prefix("P" :> String(input_bytes)),
               info |-> get_string_from_dict("Title" :> String(input_bytes), "Title")]
    /\ pc' = "decoded"
    /\ UNCHANGED <<total_pages, input_bytes, rangeVars, labelVars, numeralVars, tocVars>>

(***************************************************************************)
(* src/pdf/document.rs: page_count, page_ids, extract_pages;               *)
(* src/pdf/text.rs: the page validation of extract_text_pages;             *)
(* src/commands/extract.rs and src/main.rs: the commands that expand a     *)
(* page list and hand it on.  A new document is given by the object ids of *)
(* its pages, in page order.                                               *)
(***************************************************************************)
page_count(d) == Len(get_pages(d))

\* (page number, ObjectId), sorted by page number
page_ids(d) == [k \in 1..d.n_pages |-> <<k, get_pages(d)[k]>>]

contains(list, x) == \E k \in 1..Len(list) : list[k] = x

\* lopdf's Document::delete_pages on the clone: the pages with the given
\* numbers leave, the others keep their order
delete_pages(all_pages, page_numbers) ==
    SelectSeq(all_pages, LAMBDA entry : ~contains(page_numbers, entry[1]))

\* the pages of the list, one for each place in the list
extract_pages_in_list_order(d, page_list) ==
    LET all_pages == page_ids(d)
        total == Len(all_pages)
    IN IF \E k \in 1..Len(page_list) : page_list[k] = 0 \/ page_list[k] > total
       THEN Err("PageError", "Page is out of range")
       ELSE Ok([page_ids |-> [k \in 1..Len(page_list) |-> all_pages[page_list[k]][2]]])

extract_pages(d, page_list) ==
    LET all_pages == page_ids(d)
        total == Len(all_pages)
        pages_to_delete ==
            LET unlisted == SelectSeq(all_pages, LAMBDA entry : ~contains(page_list, entry[1]))
            IN [k \in 1..Len(unlisted) |-> unlisted[k][1]]
        kept == IF pages_to_delete # <<>> THEN delete_pages(all_pages, pages_to_delete)
                ELSE all_pages
    IN IF \E k \in 1..Len(page_list) : page_list[k] = 0 \/ page_list[k] > total
       THEN Err("PageError", "Page is out of range")
       ELSE Ok([page_ids |-> [k \in 1..Len(kept) |-> kept[k][2]]])

\* extract_text_pages up to the texts: the validation, then one PageText
\* for each listed page
extract_text_pages(d, page_list) ==
    LET total_pages_of_file == Len(get_pages(d)) IN
    IF \E k \in 1..Len(page_list) : page_list[k] = 0 \/ page_list[k] > total_pages_of_file
    THEN Err("PageError", "Page is out of range")
    ELSE Ok([k \in 1..Len(page_list) |-> [page |-> page_list[k]]])

\* Documents of 0..MaxTotal pages.
PageDocuments == {Document(Some(EmptyDict), EmptyDict, n) : n \in 0..MaxTotal}

\* Page lists: page 0, the pages and one page more, in any order, repeated.
PageLists == UNION {[1..n -> 0..(MaxTotal + 1)] : n \in 0..MaxListLen}

\* let doc = PdfDocument::open(..)?; let total_pages = doc.page_count();
RunOpen ==
    /\ pc = "run_call"
    /\ total_pages' = page_count(doc)
    /\ pc' = "list_call"
    /\ UNCHANGED <<ret, rangeVars, labelVars, numeralVars, tocVars, input_bytes>>

\* commands::extract::run after expand_page_ranges(pages, total_pages)
RunExtract ==
    /\ pc = "list_done"
    /\ IF IsErr(ret)
       THEN /\ pc' = "run_done"
            /\ UNCHANGED ret
       ELSE IF ret.val = <<>>
       THEN /\ ret' = Err("NoPages", "No pages specified")
            /\ pc' = "run_done"
       ELSE /\ ret' = extract_pages(doc, ret.val)
            /\ pc' = "extracted"
    /\ UNCHANGED <<total_pages, rangeVars, labelVars, numeralVars, tocVars, input_bytes>>

\* Commands::ReadPages after expand_page_ranges(&pages, total)
RunReadPages ==
    /\ pc = "list_done"
    /\ IF IsErr(ret)
       THEN /\ pc' = "run_done"
            /\ UNCHANGED ret
       ELSE /\ ret' = extract_text_pages(doc, ret.val)
            /\ pc' = "read"
    /\ UNCHANGED <<total_pages, rangeVars, labelVars, numeralVars, tocVars, input_bytes>>

\* doc.extract_pages(&pages) on a list built directly
ExtractPages ==
    /\ pc = "extract_call"
    /\ ret' = extract_pages(doc, pages)
    /\ pc' = "extracted"
    /\ UNCHANGED <<total_pages, rangeVars, labelVars, numeralVars, tocVars, input_bytes>>

(***************************************************************************)
(* Specifications.                                                         *)
(***************************************************************************)
NoDocument == Document(None, EmptyDict, 0)

RangeIdle ==
    /\ s = <<>>
    /\ range = NoRange
    /\ ranges = <<>>
    /\ idx = 0
    /\ pages = <<>>

LabelIdle ==
    /\ doc = NoDocument
    /\ overflow_checks = FALSE
    /\ label_ranges = <<>>
    /\ physical_page = 0
    /\ labels = <<>>

NumeralIdle ==
    /\ style = "None"
    /\ value = 0

TocIdle ==
    /\ stack = <<>>
    /\ visits = 0
    /\ flat = <<>>

DecodeIdle == input_bytes = <<>>

\* PageRange::parse on segment texts.
InitParse ==
    /\ pc = "parse"
    /\ s \in SegTexts
    /\ total_pages = MaxTotal
    /\ range = NoRange
    /\ ranges = <<>>
    /\ idx = 0
    /\ pages = <<>>
    /\ ret = NoRet
    /\ TocIdle
    /\ DecodeIdle
    /\ LabelIdle
    /\ NumeralIdle

NextParse == ParseRange

SpecParse == InitParse /\ [][NextParse]_vars

\* PageRange::parse followed by expand, and expand on ranges built directly.
InitExpand ==
    /\ total_pages \in 0..MaxTotal
    /\ ranges = <<>>
    /\ idx = 0
    /\ pages = <<>>
    /\ ret = NoRet
    /\ TocIdle
    /\ DecodeIdle
    /\ \/ pc = "parse" /\ s \in RangeTexts /\ range = NoRange
       \/ pc = "expand" /\ s = <<>> /\ range \in PageRanges
    /\ LabelIdle
    /\ NumeralIdle

NextExpand == ParseRange \/ ExpandRange

SpecExpand == InitExpand /\ [][NextExpand]_vars

\* expand_page_ranges on comma-separated texts.
InitList ==
    /\ pc = "list_call"
    /\ s \in ListTexts
    /\ total_pages \in 0..MaxTotal
    /\ range = NoRange
    /\ ranges = <<>>
    /\ idx = 0
    /\ pages = <<>>
    /\ ret = NoRet
    /\ TocIdle
    /\ DecodeIdle
    /\ LabelIdle
    /\ NumeralIdle

NextList == ListParse \/ ListExpand \/ ListReturn

SpecList == InitList /\ [][NextList]_vars

\* extract_page_labels_from_doc on documents, in both builds.
InitLabels ==
    /\ pc = "labels_call"
    /\ doc \in Documents
    /\ overflow_checks \in BOOLEAN
    /\ total_pages = 0
    /\ label_ranges = <<>>
    /\ physical_page = 0
    /\ labels = <<>>
    /\ ret = NoRet
    /\ TocIdle
    /\ DecodeIdle
    /\ RangeIdle
    /\ NumeralIdle

NextLabels == LabelsStart \/ LabelsStep \/ LabelsReturn

SpecLabels == InitLabels /\ [][NextLabels]_vars

\* The number part of a label, on every value up to MaxValue.
InitNumerals ==
    /\ pc = "render"
    /\ style \in LabelStyle
    /\ value \in 0..MaxValue
    /\ total_pages = 0
    /\ ret = NoRet
    /\ TocIdle
    /\ DecodeIdle
    /\ RangeIdle
    /\ LabelIdle

NextNumerals == RenderNumber

SpecNumerals == InitNumerals /\ [][NextNumerals]_vars

\* flatten_toc on TOC trees built directly.
InitFlatten ==
    /\ pc = "toc_done"
    /\ ret \in {Ok(tree) : tree \in TocForests}
    /\ total_pages = 0
    /\ stack = <<>>
    /\ visits = 0
    /\ flat = <<>>
    /\ DecodeIdle
    /\ RangeIdle
    /\ LabelIdle
    /\ NumeralIdle

NextFlatten == FlattenToc

SpecFlatten == InitFlatten /\ [][NextFlatten]_vars

\* extract_toc_from_doc on documents, then flatten_toc on the result.
InitToc ==
    /\ pc = "toc_call"
    /\ doc \in TocDocuments
    /\ overflow_checks = FALSE
    /\ label_ranges = <<>>
    /\ physical_page = 0
    /\ labels = <<>>
    /\ total_pages = 0
    /\ ret = NoRet
    /\ TocIdle
    /\ DecodeIdle
    /\ RangeIdle
    /\ NumeralIdle

NextToc == TocStart \/ OutlineVisit \/ OutlineReturn \/ FlattenToc

SpecToc == InitToc /\ [][NextToc]_vars

\* Either extraction, on its documents.
InitExtract == InitLabels \/ InitToc

NextExtract == NextLabels \/ NextToc

SpecExtract == InitExtract /\ [][NextExtract]_vars

\* The three decode_pdf_string functions on one byte string.
InitDecode ==
    /\ pc = "decode_call"
    /\ input_bytes \in ByteStrings
    /\ ret = NoRet
    /\ total_pages = 0
    /\ TocIdle
    /\ RangeIdle
    /\ LabelIdle
    /\ NumeralIdle

NextDecode == DecodeStrings

SpecDecode == InitDecode /\ [][NextDecode]_vars

\* The extract and read-pages commands on a page-list text and a document.
InitRun ==
    /\ pc = "run_call"
    /\ s \in ListTexts
    /\ doc \in PageDocuments
    /\ total_pages = 0
    /\ range = NoRange
    /\ ranges = <<>>
    /\ idx = 0
    /\ pages = <<>>
    /\ ret = NoRet
    /\ overflow_checks = FALSE
    /\ label_ranges = <<>>
    /\ physical_page = 0
    /\ labels = <<>>
    /\ TocIdle
    /\ DecodeIdle
    /\ NumeralIdle

NextRun == RunOpen \/ ListParse \/ ListExpand \/ ListReturn \/ RunExtract \/ RunReadPages

\* PageRange::expand alone, and the commands.
InitPages == InitExpand \/ InitRun

NextPages == NextExpand \/ NextRun

SpecPages == InitPages /\ [][NextPages]_vars

\* extract_pages on page lists built directly, and the commands.
InitExtractPages ==
    \/ InitRun
    \/ /\ pc = "extract_call"
       /\ pages \in PageLists
       /\ doc \in PageDocuments
       /\ total_pages = 0
       /\ s = <<>>
       /\ range = NoRange
       /\ ranges = <<>>
       /\ idx = 0
       /\ ret = NoRet
       /\ overflow_checks = FALSE
       /\ label_ranges = <<>>
       /\ physical_page = 0
       /\ labels = <<>>
       /\ TocIdle
       /\ DecodeIdle
       /\ NumeralIdle

NextExtractPages == ExtractPages \/ NextRun

SpecExtractPages == InitExtractPages /\ [][NextExtractPages]_vars

(***************************************************************************)
(* Vocabulary of the properties of src/page_range.rs.                      *)
(***************************************************************************)
\* The page a reference stands for: `end` stands for total_pages.
Resolved(ref, total) == IF ref.tag = "End" THEN total ELSE ref.n

ResolvedStart(r, total) == Resolved(r.start, total)

\* A missing end stands for the start.
ResolvedEnd(r, total) ==
    IF r.end.tag = "None" THEN ResolvedStart(r, total) ELSE Resolved(r.end.val, total)

Abs(x) == IF x < 0 THEN 0 - x ELSE x

\* The inclusive run from a to b, ascending or descending.
IsRun(seq, a, b) ==
    /\ Len(seq) = Abs(a - b) + 1
    /\ \A k \in 1..Len(seq) : seq[k] = IF a <= b THEN a + (k - 1) ELSE a - (k - 1)

\* C1: expand on a range a-b with 1 <= a, b <= total_pages (`end` standing
\* for total_pages, a missing end for a) returns the inclusive run from a
\* to b, ascending when a <= b and descending when a > b, of |a-b|+1 pages.
C1_ExpandIsInclusiveRun ==
    pc = "expanded" =>
        LET a == ResolvedStart(range, total_pages)
            b == ResolvedEnd(range, total_pages)
        IN (a \in 1..total_pages /\ b \in 1..total_pages) =>
               /\ IsOk(ret)
               /\ IsRun(ret.val, a, b)

\* A reversed range of three pages ending at `end` was expanded.
C1_Witness ==
    /\ pc = "expanded"
    /\ IsOk(ret)
    /\ range.start = End
    /\ range.end = Some(Number(1))
    /\ ret.val = <<3, 2, 1>>

\* C3: expand returns a range error exactly when the resolved start or the
\* resolved end is 0 or exceeds total_pages; parsing the text "0" succeeds
\* and gives start Number(0), so page 0 is rejected at expansion only.
C3_RangeErrorIffOutOfBounds ==
    /\ pc = "expanded" =>
          LET a == ResolvedStart(range, total_pages)
              b == ResolvedEnd(range, total_pages)
          IN /\ ret.tag \in {"Ok", "Err"}
             /\ (IsErr(ret) /\ ret.kind = "RangeError")
                    <=> (a = 0 \/ b = 0 \/ a > total_pages \/ b > total_pages)
    /\ (pc = "parsed" /\ s = Str(<<"0">>)) =>
          ret = Ok(PageRange(Number(0), None, "None"))

\* The text "0" was parsed, and the expansion of the parsed range failed.
C3_Witness ==
    /\ pc = "expanded"
    /\ s = Str(<<"0">>)
    /\ range.start = Number(0)
    /\ total_pages > 0
    /\ IsErr(ret)

(***************************************************************************)
(* The grammar of a segment, as the properties state it.                   *)
(***************************************************************************)
RotationLetters == {B("R"), B("r"), B("L"), B("l"), B("D"), B("d")}

RotationOfLetter(c) ==
    IF c \in {B("R"), B("r")} THEN "Right"
    ELSE IF c \in {B("L"), B("l")} THEN "Left"
    ELSE "Down"

\* The text ends with a rotation letter that follows a decimal digit.
HasRotationTag(t) ==
    /\ Len(t) >= 2
    /\ t[Len(t)] \in RotationLetters
    /\ t[Len(t) - 1] \in B("0")..B("9")

IsEndWord(t) ==
    /\ Len(t) = 3
    /\ t[1] \in {B("e"), B("E")}
    /\ t[2] \in {B("n"), B("N")}
    /\ t[3] \in {B("d"), B("D")}

IsDigits(t) == Len(t) >= 1 /\ \A k \in 1..Len(t) : t[k] \in B("0")..B("9")

\* The value of a digit text, capped above u32::MAX.
RECURSIVE DecimalValue(_)
DecimalValue(t) ==
    IF t = <<>> THEN 0
    ELSE LET high == DecimalValue(SubSeq(t, 1, Len(t) - 1)) IN
         IF high > UMax THEN high ELSE 10 * high + (t[Len(t)] - B("0"))

\* REF: one or more decimal digits whose value fits the integer width, or
\* the word end in any letter case.
IsRef(t) == IsEndWord(t) \/ (IsDigits(t) /\ DecimalValue(t) <= UMax)

RefOf(t) == IF IsEndWord(t) THEN End ELSE Number(DecimalValue(t))

\* SEGMENT without its rotation letter: REF or REF-REF.
IsRefOrPair(t) ==
    \/ IsRef(t)
    \/ \E k \in 2..(Len(t) - 1) :
          /\ t[k] = B("-")
          /\ IsRef(SubSeq(t, 1, k - 1))
          /\ IsRef(SubSeq(t, k + 1, Len(t)))

InGrammar(t) ==
    IF HasRotationTag(t) THEN IsRefOrPair(SubSeq(t, 1, Len(t) - 1)) ELSE IsRefOrPair(t)

\* C4: a trailing R/r, L/l or D/d is a rotation tag only when the character
\* before it is a decimal digit; otherwise the rotation is None and the last
\* character stays part of the reference (so a text that parses and ends in
\* such a letter ends in the word end).  `end` in any letter case parses to
\* start End, end None, rotation None; N-end to end End, rotation None.
C4_RotationOnlyAfterDigit ==
    pc = "parsed" =>
        LET t == trim(s)
            n == Len(t)
        IN /\ (IsOk(ret) /\ HasRotationTag(t)) => ret.val.rotation = RotationOfLetter(t[n])
           /\ (IsOk(ret) /\ ~HasRotationTag(t)) => ret.val.rotation = "None"
           /\ (IsOk(ret) /\ ~HasRotationTag(t) /\ n >= 1 /\ t[n] \in RotationLetters) =>
                  /\ n >= 3
                  /\ IsEndWord(SubSeq(t, n - 2, n))
                  /\ End \in {ret.val.start, IF ret.val.end = None THEN End ELSE ret.val.end.val}
           /\ IsEndWord(t) => ret = Ok(PageRange(End, None, "None"))
           /\ \A k \in 2..(n - 3) :
                  (/\ IsDigits(SubSeq(t, 1, k - 1))
                   /\ DecimalValue(SubSeq(t, 1, k - 1)) <= UMax
                   /\ t[k] = B("-")
                   /\ IsEndWord(SubSeq(t, k + 1, n)))
                  => ret = Ok(PageRange(Number(DecimalValue(SubSeq(t, 1, k - 1))), Some(End), "None"))

\* A range to `end` was parsed without a rotation, its final d kept in the
\* reference.
C4_Witness ==
    /\ pc = "parsed"
    /\ s = Str(<<"1", "-", "e", "n", "d">>)
    /\ ret = Ok(PageRange(Number(1), Some(End), "None"))

\* C5, as stated: PageRange::parse accepts exactly the segments of the
\* grammar.  After trimming and removing a rotation letter that follows a
\* digit the segment is REF or REF-REF, REF being decimal digits (value
\* fitting the integer width) or the word end; every other segment is a
\* parse error.
C5_ParseAcceptsExactlyGrammar ==
    pc = "parsed" => (IsOk(ret) <=> InGrammar(trim(s)))

(***************************************************************************)
(* The segments of a comma-separated text, as the properties state them.   *)
(***************************************************************************)
\* Positions of the commas, with a position before the text and one after.
CommaBounds(t) == {0, Len(t) + 1} \cup {k \in 1..Len(t) : t[k] = B(",")}

\* The k-th smallest element of a set of numbers.
Nth(set, k) == CHOOSE x \in set : Cardinality({y \in set : y < x}) = k - 1

\* The texts between successive commas, left to right.
Segments(t) ==
    LET bounds == CommaBounds(t) IN
    [k \in 1..(Cardinality(bounds) - 1) |->
        SubSeq(t, Nth(bounds, k) + 1, Nth(bounds, k + 1) - 1)]

\* parse, then expand, of one segment.
SegmentPages(seg, total) ==
    LET r == PageRange_parse(seg) IN
    IF IsErr(r) THEN r ELSE PageRange_expand(r.val, total)

RECURSIVE Flatten(_)
Flatten(seqs) == IF seqs = <<>> THEN <<>> ELSE Head(seqs) \o Flatten(Tail(seqs))

\* C2: when every segment of the text parses and expands,
\* expand_page_ranges returns the concatenation of the segments'
\* expansions in left-to-right order, repetitions kept, nothing sorted.
C2_ConcatenatesInOrder ==
    pc = "list_done" =>
        LET segs == Segments(s)
            each == [k \in 1..Len(segs) |-> SegmentPages(segs[k], total_pages)]
        IN (\A k \in 1..Len(segs) : IsOk(each[k])) =>
               /\ IsOk(ret)
               /\ ret.val = Flatten([k \in 1..Len(segs) |-> each[k].val])

\* A result that holds a page twice and is not in ascending order.
C2_Witness ==
    /\ pc = "list_done"
    /\ IsOk(ret)
    /\ Len(Segments(s)) >= 2
    /\ \E i, j \in 1..Len(ret.val) : i < j /\ ret.val[i] = ret.val[j]
    /\ \E i \in 1..(Len(ret.val) - 1) : ret.val[i] > ret.val[i + 1]

\* C6: expand_page_ranges is all-or-nothing.  When a segment fails to parse
\* or to expand, the call returns an error and no page list, whatever was
\* expanded before; a page list is returned only when every segment parses
\* and expands.
C6_AllOrNothing ==
    pc = "list_done" =>
        LET segs == Segments(s)
            failing == \E k \in 1..Len(segs) : IsErr(SegmentPages(segs[k], total_pages))
        IN /\ ret.tag \in {"Ok", "Err"}
           /\ failing <=> IsErr(ret)

\* An error was returned after pages of earlier segments had been collected.
C6_Witness ==
    /\ pc = "list_done"
    /\ IsErr(ret)
    /\ ret.kind = "RangeError"
    /\ Len(pages) >= 2

\* The first segment, from the left, whose result satisfies `failed`; 0 when
\* there is none.
LeftmostFailing(results) ==
    IF \A k \in 1..Len(results) : IsOk(results[k]) THEN 0
    ELSE CHOOSE k \in 1..Len(results) :
             /\ IsErr(results[k])
             /\ \A j \in 1..(k - 1) : IsOk(results[j])

\* C24: expand_page_ranges parses every segment before it expands any.
\* When some segment does not parse, the call returns the parse error of
\* the leftmost such segment, even when a segment further left would fail
\* to expand; a range error is returned only when all segments parse, and
\* it is the error of the leftmost segment that fails to expand.
C24_ParseErrorsBeforeRangeErrors ==
    pc = "list_done" =>
        LET segs == Segments(s)
            parsed == [k \in 1..Len(segs) |-> PageRange_parse(segs[k])]
            unparsed == LeftmostFailing(parsed)
            expanded == [k \in 1..Len(segs) |->
                            IF IsOk(parsed[k]) THEN PageRange_expand(parsed[k].val, total_pages)
                            ELSE Ok(<<>>)]
            unexpanded == LeftmostFailing(expanded)
        IN /\ unparsed # 0 => ret = parsed[unparsed]
           /\ (unparsed = 0 /\ unexpanded # 0) => ret = expanded[unexpanded]
           /\ (IsErr(ret) /\ ret.kind = "RangeError") => unparsed = 0

\* A text whose first segment parses and cannot be expanded and whose later
\* segment does not parse: the call returned the parse error.
C24_Witness ==
    /\ pc = "list_done"
    /\ IsErr(ret)
    /\ ret.kind = "ParseError"
    /\ LET segs == Segments(s) IN
       /\ Len(segs) >= 2
       /\ IsErr(SegmentPages(segs[1], total_pages))
       /\ IsOk(PageRange_parse(segs[1]))
       /\ \E k \in 2..Len(segs) : IsErr(PageRange_parse(segs[k]))

\* A text whose segments all parse and of which two cannot be expanded, for
\* different reasons: the call returned the error of the left one.
C24_WitnessRangeError ==
    /\ pc = "list_done"
    /\ IsErr(ret)
    /\ ret.kind = "RangeError"
    /\ LET segs == Segments(s) IN
       \E j, k \in 1..Len(segs) :
           /\ j < k
           /\ IsErr(SegmentPages(segs[j], total_pages))
           /\ IsErr(SegmentPages(segs[k], total_pages))
           /\ SegmentPages(segs[j], total_pages) # SegmentPages(segs[k], total_pages)
           /\ ret = SegmentPages(segs[j], total_pages)

(***************************************************************************)
(* Vocabulary of the properties of src/pdf/page_labels.rs.                 *)
(***************************************************************************)
\* The last range, in list order, that starts at or before page p; the
\* default range when there is none.
LastRangeUpTo(rs, p) ==
    IF \A k \in 1..Len(rs) : rs[k].start_page > p THEN DefaultRange
    ELSE rs[CHOOSE k \in 1..Len(rs) :
                /\ rs[k].start_page <= p
                /\ \A j \in (k + 1)..Len(rs) : rs[j].start_page > p]

IsAscendingByStart(rs) ==
    \A j, k \in 1..Len(rs) : j < k => rs[j].start_page <= rs[k].start_page

\* The decimal text of a number.
RECURSIVE DecimalText(_)
DecimalText(n) ==
    IF n < 10 THEN <<B(DigitChars[n + 1])>>
    ELSE Append(DecimalText(n \div 10), B(DigitChars[(n % 10) + 1]))

\* C7, as stated: the label of page p (zero-indexed) of a document with a
\* PageLabels number tree is the prefix of the last range, in ascending
\* start_page order, with start_page <= p (of the default range when there
\* is none), followed by start_value + (p - start_page) rendered in the
\* style of that range.
C7_LabelFromLastRange ==
    /\ IsAscendingByStart(label_ranges)
    /\ \A k \in 1..Len(labels) :
          LET p == k - 1
              r == LastRangeUpTo(label_ranges, p)
          IN labels[k].logical_label
                 = r.prefix \o number_part(r.style, r.start_value + (p - r.start_page))

\* C8, as stated: for a document (with a catalog) of N pages the call ends
\* with exactly N entries whose physical_page fields are 1, 2, ..., N in
\* that order, whatever the PageLabels tree contains.
C8_OneEntryPerPageInOrder ==
    (pc \in {"labels_done", "panicked"} /\ doc.catalog.tag = "Some") =>
        /\ pc = "labels_done"
        /\ IsOk(ret)
        /\ Len(ret.val) = doc.n_pages
        /\ \A k \in 1..Len(ret.val) : ret.val[k].physical_page = k

\* The catalog has no PageLabels entry, or one that is no reference to a
\* dictionary.
NoReadablePageLabels(d) ==
    /\ d.catalog.tag = "Some"
    /\ \/ "PageLabels" \notin DOMAIN d.catalog.val
       \/ d.catalog.val["PageLabels"].tag # "Reference"
       \/ d.catalog.val["PageLabels"].id \notin DOMAIN d.objects
       \/ d.objects[d.catalog.val["PageLabels"].id].tag # "Dictionary"

RomanUnit(d, one, five, ten) ==
    CASE d = 0 -> <<>>
      [] d \in 1..3 -> [k \in 1..d |-> one]
      [] d = 4 -> <<one, five>>
      [] d \in 5..8 -> <<five>> \o [k \in 1..(d - 5) |-> one]
      [] d = 9 -> <<one, ten>>

RomanByDigits(n) ==
    [k \in 1..(n \div 1000) |-> B("M")]
        \o RomanUnit((n \div 100) % 10, B("C"), B("D"), B("M"))
        \o RomanUnit((n \div 10) % 10, B("X"), B("L"), B("C"))
        \o RomanUnit(n % 10, B("I"), B("V"), B("X"))

RomanLetterValue(c) ==
    CASE c = B("M") -> 1000 [] c = B("D") -> 500 [] c = B("C") -> 100 [] c = B("L") -> 50
      [] c = B("X") -> 10 [] c = B("V") -> 5 [] c = B("I") -> 1 [] OTHER -> 0

\* The number a numeral stands for: a letter before a larger one is
\* subtracted, every other letter is added.
RECURSIVE RomanNumber(_)
RomanNumber(text) ==
    IF text = <<>> THEN 0
    ELSE IF Len(text) >= 2 /\ RomanLetterValue(text[1]) < RomanLetterValue(text[2])
         THEN RomanNumber(Tail(text)) - RomanLetterValue(text[1])
         ELSE RomanNumber(Tail(text)) + RomanLetterValue(text[1])

Lowercased(text) == [k \in 1..Len(text) |-> IF text[k] \in B("A")..B("Z") THEN text[k] + 32 ELSE text[k]]

\* C10: to_roman(n) for n >= 1 is the numeral made by consuming the table
\* M, CM, D, CD, C, XC, L, XL, X, IX, V, IV, I greedily from the largest
\* symbol down, so the symbols' values add up to n (1 -> I, 4 -> IV,
\* 9 -> IX, 42 -> XLII, 1999 -> MCMXCIX); to_roman(0) is the text 0; the
\* LowerRoman style is the same text in lower case.
C10_RomanNumerals ==
    (pc = "rendered" /\ style \in {"UpperRoman", "LowerRoman"}) =>
        LET upper == IF value = 0 THEN <<B("0")>> ELSE RomanByDigits(value) IN
        /\ ret.val = IF style = "UpperRoman" THEN upper ELSE Lowercased(upper)
        /\ (value >= 1 /\ style = "UpperRoman") => RomanNumber(ret.val) = value
        /\ (style = "UpperRoman" /\ value = 1) => ret.val = Str(<<"I">>)
        /\ (style = "UpperRoman" /\ value = 4) => ret.val = Str(<<"I", "V">>)
        /\ (style = "UpperRoman" /\ value = 9) => ret.val = Str(<<"I", "X">>)
        /\ (style = "UpperRoman" /\ value = 42) => ret.val = Str(<<"X", "L", "I", "I">>)
        /\ (style = "UpperRoman" /\ value = 1999)
              => ret.val = Str(<<"M", "C", "M", "X", "C", "I", "X">>)
        /\ (style = "LowerRoman" /\ value = 1999)
              => ret.val = Str(<<"m", "c", "m", "x", "c", "i", "x">>)

\* 1999 was rendered in the UpperRoman style.
C10_Witness ==
    /\ pc = "rendered"
    /\ style = "UpperRoman"
    /\ value = 1999
    /\ ret = Ok(Str(<<"M", "C", "M", "X", "C", "I", "X">>))

(***************************************************************************)
(* Alphabetic labels.                                                      *)
(***************************************************************************)
\* The number a text over A..Z stands for as a bijective base-26 numeral:
\* A = 1, ..., Z = 26, most significant letter first.
RECURSIVE BijectiveValue(_)
BijectiveValue(text) ==
    IF text = <<>> THEN 0
    ELSE 26 * BijectiveValue(SubSeq(text, 1, Len(text) - 1)) + (text[Len(text)] - B("A") + 1)

\* C11: for every n >= 1 to_alpha(n) is a non-empty text over A..Z which,
\* read back as a bijective base-26 numeral, gives n again (1 -> A, 26 -> Z,
\* 27 -> AA, 28 -> AB, 702 -> ZZ, 703 -> AAA); to_alpha(0) is the empty text.
C11_AlphaIsBijectiveBase26 ==
    (pc = "rendered" /\ style = "UpperAlpha") =>
        /\ IsOk(ret)
        /\ (value = 0) => ret.val = <<>>
        /\ (value >= 1) =>
              /\ ret.val # <<>>
              /\ \A k \in 1..Len(ret.val) : ret.val[k] \in B("A")..B("Z")
              /\ BijectiveValue(ret.val) = value
        /\ (value = 1) => ret.val = Str(<<"A">>)
        /\ (value = 26) => ret.val = Str(<<"Z">>)
        /\ (value = 27) => ret.val = Str(<<"A", "A">>)
        /\ (value = 28) => ret.val = Str(<<"A", "B">>)
        /\ (value = 702) => ret.val = Str(<<"Z", "Z">>)
        /\ (value = 703) => ret.val = Str(<<"A", "A", "A">>)

\* 703, the first three-letter label, was rendered in the UpperAlpha style.
C11_Witness ==
    /\ pc = "rendered"
    /\ style = "UpperAlpha"
    /\ value = 703
    /\ ret = Ok(Str(<<"A", "A", "A">>))

(***************************************************************************)
(* Vocabulary of the properties of src/pdf/toc.rs.                         *)
(***************************************************************************)
\* The nodes of a forest, each named by its path: the index of a root, then
\* the index among the children at every level below.
RECURSIVE NodePaths(_)
NodePaths(forest) ==
    UNION { {<<k>>} \cup {<<k>> \o p : p \in NodePaths(forest[k].children)} :
            k \in 1..Len(forest) }

RECURSIVE NodeAt(_, _)
NodeAt(forest, path) ==
    IF Len(path) = 1 THEN forest[path[1]]
    ELSE NodeAt(forest[path[1]].children, Tail(path))

\* Pre-order: a node comes before its descendants, and the subtree of an
\* earlier sibling before the subtree of a later one.
RECURSIVE PreOrderBefore(_, _)
PreOrderBefore(p, q) ==
    IF p = <<>> THEN q # <<>>
    ELSE IF q = <<>> THEN FALSE
    ELSE IF p[1] # q[1] THEN p[1] < q[1]
    ELSE PreOrderBefore(Tail(p), Tail(q))

PreOrderRank(forest, p) ==
    Cardinality({q \in NodePaths(forest) : PreOrderBefore(q, p)}) + 1

\* C12: flatten_toc emits one FlatTocEntry per node of the tree, in
\* pre-order, with the node's own title, page and level; the output is as
\* long as the tree has nodes and the call always gives a list
\* (A{B, C{D}} flattens to A(0), B(1), C(1), D(2)).
C12_FlattenIsPreOrder ==
    (pc = "flattened") =>
        /\ Len(flat) = Cardinality(NodePaths(ret.val))
        /\ \A p \in NodePaths(ret.val) :
              LET node == NodeAt(ret.val, p) IN
              flat[PreOrderRank(ret.val, p)] = [title |-> node.title, page |-> node.page,
                                                level |-> node.level]
        /\ (ret.val = TreeABCD) =>
              flat = << [title |-> Str(<<"A">>), page |-> Some(1), level |-> 0],
                        [title |-> Str(<<"B">>), page |-> Some(2), level |-> 1],
                        [title |-> Str(<<"C">>), page |-> None, level |-> 1],
                        [title |-> Str(<<"D">>), page |-> Some(1), level |-> 2] >>

\* The tree A{B, C{D}} was flattened to four entries.
C12_Witness ==
    /\ pc = "flattened"
    /\ ret.val = TreeABCD
    /\ Len(flat) = 4
    /\ flat[4].level = 2

(***************************************************************************)
(* Named destinations.                                                     *)
(***************************************************************************)
\* The only item of a one-item outline, and the name it gives as its
\* destination (as Dest, or as the D of an inline GoTo action), if any.
OnlyItem(d) == d.objects[OutlineItemId(1)].d

NameBytes(obj) ==
    IF obj.tag = "String" THEN obj.bytes
    ELSE IF obj.tag = "Name" THEN <<B(obj.name)>> ELSE <<>>

DestinationName(d) ==
    LET item == OnlyItem(d) IN
    IF "Dest" \in DOMAIN item THEN NameBytes(item["Dest"])
    ELSE IF "A" \in DOMAIN item /\ item["A"].tag = "Dictionary"
            /\ DOMAIN item["A"].d = {"S", "D"} /\ item["A"].d["S"] = Name("GoTo")
    THEN NameBytes(item["A"].d["D"])
    ELSE <<>>

\* The targets the root of the Catalog.Names.Dests name tree and the legacy
\* Catalog.Dests dictionary give to a name: the set is empty when the name
\* is not there.
NameTreeTargets(d, name) ==
    LET c == d.catalog.val
        tree == d.objects[d.objects[c["Names"].id].d["Dests"].id].d["Names"].a
    IN IF "Names" \in DOMAIN c /\ c["Names"].tag = "Reference"
          /\ c["Names"].id \in DOMAIN d.objects
          /\ "Dests" \in DOMAIN d.objects[c["Names"].id].d
          /\ d.objects[c["Names"].id].d["Dests"].tag = "Reference"
          /\ "Names" \in DOMAIN d.objects[d.objects[c["Names"].id].d["Dests"].id].d
       THEN {tree[2 * k] : k \in {j \in 1..(Len(tree) \div 2) : tree[2 * j - 1] = String(name)}}
       ELSE {}

LegacyTargets(d, name) ==
    LET c == d.catalog.val IN
    IF "Dests" \in DOMAIN c /\ c["Dests"].tag = "Reference"
    THEN {d.objects[c["Dests"].id].d[key] :
              key \in {k \in DOMAIN d.objects[c["Dests"].id].d : <<B(k)>> = name}}
    ELSE {}

\* The page a target names: the page whose object a destination array
\* starts with, directly or behind one reference.
TargetPage(d, target) ==
    LET arr == IF target.tag = "Reference" /\ target.id \in DOMAIN d.objects
               THEN d.objects[target.id] ELSE target
    IN IF arr.tag = "Array" /\ arr.a # <<>> /\ arr.a[1].tag = "Reference"
          /\ \E k \in 1..d.n_pages : arr.a[1].id = 100 + k
       THEN Some(arr.a[1].id - 100)
       ELSE None

\* C13: when a name is in the Catalog.Names.Dests name tree and in the
\* legacy Catalog.Dests dictionary with different targets, the page of an
\* item with that name as destination is the page of the name tree's
\* target; the legacy dictionary's target gives the page only when the name
\* tree gives none.
C13_NameTreeBeforeLegacy ==
    (/\ pc = "toc_done"
     /\ doc \in DestinationDocuments
     /\ DestinationName(doc) # <<>>) =>
        LET name == DestinationName(doc)
            modern == NameTreeTargets(doc, name)
            legacy == LegacyTargets(doc, name)
        IN (Cardinality(modern) = 1 /\ Cardinality(legacy) = 1 /\ modern # legacy) =>
              LET m == TargetPage(doc, CHOOSE t \in modern : TRUE)
                  l == TargetPage(doc, CHOOSE t \in legacy : TRUE)
              IN /\ IsOk(ret)
                 /\ Len(ret.val) = 1
                 /\ ret.val[1].page = IF m.tag = "Some" THEN m ELSE l

\* The name a is page 1 in the name tree and page 2 in the legacy
\* dictionary, and the item whose Dest is the name a got page 1.
C13_Witness ==
    /\ pc = "toc_done"
    /\ doc \in DestinationDocuments
    /\ "Dest" \in DOMAIN OnlyItem(doc)
    /\ OnlyItem(doc)["Dest"] = Name("a")
    /\ NameTreeTargets(doc, Str(<<"a">>)) = {PageDest(1)}
    /\ LegacyTargets(doc, Str(<<"a">>)) = {PageDest(2)}
    /\ IsOk(ret)
    /\ ret.val[1].page = Some(1)

(***************************************************************************)
(* Malformed documents.                                                    *)
(***************************************************************************)
\* C14, as stated: on a document with a catalog, extract_toc_from_doc and
\* extract_page_labels_from_doc end with a complete result, never with an
\* error, a panic or a crash, whatever the outline or the PageLabels number
\* tree holds.
C14_AlwaysACompleteResult ==
    (doc.catalog.tag = "Some" /\ pc \in {"labels_done", "toc_done", "panicked", "crashed"}) =>
        /\ pc \in {"labels_done", "toc_done"}
        /\ IsOk(ret)

\* The catalog has no Outlines entry, or its Outlines reference leads to no
\* dictionary, or the outline root has no First entry that is a reference.
NoOutline(d) ==
    LET c == d.catalog.val IN
    \/ "Outlines" \notin DOMAIN c
    \/ /\ c["Outlines"].tag = "Reference"
       /\ \/ c["Outlines"].id \notin DOMAIN d.objects
          \/ d.objects[c["Outlines"].id].tag # "Dictionary"
          \/ "First" \notin DOMAIN d.objects[c["Outlines"].id].d
          \/ d.objects[c["Outlines"].id].d["First"].tag # "Reference"

\* C15: extract_toc_from_doc returns Ok with an empty sequence when the
\* catalog has no Outlines entry, when the Outlines reference does not lead
\* to a dictionary, and when the outline root has no First reference.
C15_NoOutlineIsEmptyToc ==
    (pc # "toc_call" /\ doc \in TocDocuments /\ doc.catalog.tag = "Some" /\ NoOutline(doc)) =>
        /\ pc \in {"toc_done", "flattened"}
        /\ ret = Ok(<<>>)

\* The call is over for a document whose outline root has a Last entry but
\* no First.
C15_Witness ==
    /\ pc = "toc_done"
    /\ doc.catalog.tag = "Some"
    /\ "Outlines" \in DOMAIN doc.catalog.val
    /\ doc.catalog.val["Outlines"] = Reference(OutlinesId)
    /\ DOMAIN doc.objects[OutlinesId].d = {"Last"}
    /\ ret = Ok(<<>>)

(***************************************************************************)
(* The shape of the table of contents.                                     *)
(***************************************************************************)
\* The entries a chain gives: the chain starts at the object id, goes on
\* along Next references and ends at a node without Next reference or at an
\* id that leads to no dictionary; each node carries, one level deeper, the
\* chain that starts at its First reference.  Items are named by their
\* number.
RECURSIVE ChainShape(_, _, _)
ChainShape(d, id, level) ==
    IF id \notin DOMAIN d.objects \/ d.objects[id].tag # "Dictionary" THEN <<>>
    ELSE LET node == d.objects[id].d
             linked(key) == key \in DOMAIN node /\ node[key].tag = "Reference"
         IN << [item |-> id - OutlinesId,
                level |-> level,
                children |-> IF linked("First") THEN ChainShape(d, node["First"].id, level + 1)
                             ELSE <<>>] >>
               \o (IF linked("Next") THEN ChainShape(d, node["Next"].id, level) ELSE <<>>)

\* The shape of a returned tree; an item of an outline document is known by
\* its title, the letter of its number.
RECURSIVE ShapeOf(_)
ShapeOf(entries) ==
    [k \in 1..Len(entries) |->
        [item |-> entries[k].title[1] - 64,
         level |-> entries[k].level,
         children |-> ShapeOf(entries[k].children)]]

\* C16: the root entries of the returned tree are the nodes of the Next
\* chain that starts at the outline root's First, in chain order and with
\* level 0; the children of an entry are the nodes of the Next chain that
\* starts at its First, with the entry's level plus one; a chain ends at
\* the first node without Next reference or whose id leads to no
\* dictionary, and the entries before it are kept.
C16_TreeFollowsFirstAndNext ==
    (pc = "toc_done" /\ doc \in OutlineDocuments) =>
        /\ IsOk(ret)
        /\ ShapeOf(ret.val) = ChainShape(doc, doc.objects[OutlinesId].d["First"].id, 0)

\* Item 1 has the child 2 and the sibling 3, whose Next leads to no object:
\* the tree is 1{2}, 3.
C16_Witness ==
    /\ pc = "toc_done"
    /\ doc \in OutlineDocuments
    /\ OutlineItemId(3) \in DOMAIN doc.objects
    /\ "Next" \in DOMAIN doc.objects[OutlineItemId(3)].d
    /\ doc.objects[OutlineItemId(3)].d["Next"] = Reference(BrokenId)
    /\ ShapeOf(ret.val) =
          << [item |-> 1, level |-> 0,
              children |-> << [item |-> 2, level |-> 1, children |-> <<>>] >>],
             [item |-> 3, level |-> 0, children |-> <<>>] >>

(***************************************************************************)
(* Actions.                                                                *)
(***************************************************************************)
\* The action dictionary of an item: its A entry when that is a dictionary
\* or a reference to one; the set is empty otherwise.
ActionDictionaries(d, item) ==
    IF "A" \notin DOMAIN item THEN {}
    ELSE IF item["A"].tag = "Dictionary" THEN {item["A"].d}
    ELSE IF item["A"].tag = "Reference" /\ item["A"].id \in DOMAIN d.objects
            /\ d.objects[item["A"].id].tag = "Dictionary"
    THEN {d.objects[item["A"].id].d}
    ELSE {}

\* The page of a direct destination: of a page array or a reference to one
\* read from the objects, of a name as the lookup of the name gives it.
DirectDestinationPage(d, dest) ==
    IF dest.tag \in {"Name", "String"}
    THEN resolve_destination(d, dest, build_page_map(d), MaxResolveDepth)
    ELSE TargetPage(d, dest)

\* C17: the page of an item whose destination comes from its A entry (an
\* inline action dictionary or a reference to one) is the page of the
\* action's D entry, resolved as a direct destination, when the action's S
\* is the name GoTo; with another subtype, without S or without D the item
\* has no page.
C17_OnlyGoToActionsGiveAPage ==
    (/\ pc = "toc_done"
     /\ doc \in DestinationDocuments
     /\ "Dest" \notin DOMAIN OnlyItem(doc)) =>
        \A action \in ActionDictionaries(doc, OnlyItem(doc)) :
            /\ IsOk(ret)
            /\ Len(ret.val) = 1
            /\ ret.val[1].page =
                  IF "S" \in DOMAIN action /\ action["S"] = Name("GoTo") /\ "D" \in DOMAIN action
                  THEN DirectDestinationPage(doc, action["D"])
                  ELSE None

\* An item whose A entry is a reference to the action GoTo /a got page 1,
\* the page of the name a.
C17_Witness ==
    /\ pc = "toc_done"
    /\ doc \in DestinationDocuments
    /\ DOMAIN OnlyItem(doc) = {"Title", "A"}
    /\ OnlyItem(doc)["A"] = Reference(ObjectIds.action)
    /\ doc.objects[ObjectIds.action].d["S"] = Name("GoTo")
    /\ IsOk(ret)
    /\ ret.val[1].page = Some(1)

\* An item with the inline action URI and a D entry got no page.
C17_WitnessOtherSubtype ==
    /\ pc = "toc_done"
    /\ doc \in DestinationDocuments
    /\ "A" \in DOMAIN OnlyItem(doc)
    /\ OnlyItem(doc)["A"].tag = "Dictionary"
    /\ DOMAIN OnlyItem(doc)["A"].d = {"S", "D"}
    /\ OnlyItem(doc)["A"].d["S"] = Name("URI")
    /\ IsOk(ret)
    /\ ret.val[1].page = None

(***************************************************************************)
(* Decoded strings.                                                        *)
(***************************************************************************)
\* The code units of the bytes after the byte-order mark, two bytes each,
\* a last single byte left out.
CodeUnits(bytes) ==
    [k \in 1..((Len(bytes) - 2) \div 2) |-> bytes[2 * k + 1] * 256 + bytes[2 * k + 2]]

\* UTF-16 read lossily: a high surrogate followed by a low surrogate is one
\* code point above U+FFFF, any other surrogate is U+FFFD.
RECURSIVE LossyText(_)
LossyText(units) ==
    IF units = <<>> THEN <<>>
    ELSE LET high(u) == u \in 55296..56319
             low(u) == u \in 56320..57343
             first == units[1]
         IN IF high(first) /\ Len(units) >= 2 /\ low(units[2])
            THEN <<65536 + (first - 55296) * 1024 + (units[2] - 56320)>>
                     \o LossyText(SubSeq(units, 3, Len(units)))
            ELSE <<IF high(first) \/ low(first) THEN 65533 ELSE first>>
                     \o LossyText(Tail(units))

DecodedText(bytes) ==
    IF Len(bytes) >= 2 /\ bytes[1] = 254 /\ bytes[2] = 255
    THEN LossyText(CodeUnits(bytes))
    ELSE bytes

\* C18: the three decode_pdf_string functions give the same text for every
\* byte string: after a leading FE FF the UTF-16BE code units with unpaired
\* surrogates replaced, otherwise every byte as the code point of its value.
C18_ThreeDecodersAgree ==
    pc = "decoded" =>
        /\ ret.title = DecodedText(input_bytes)
        /\ ret.prefix = DecodedText(input_bytes)
        /\ ret.info = Some(DecodedText(input_bytes))

(***************************************************************************)
(* The outline as a graph: its nodes are the dictionaries reached from the *)
(* First of the outline root over First and Next references.               *)
(***************************************************************************)
ItemLinks(d, id) ==
    LET node == get_dictionary(d, id) IN
    IF node.tag = "None" THEN {}
    ELSE {ref.val : ref \in {r \in {reference_at(node.val, "First"), reference_at(node.val, "Next")} :
                                 r.tag = "Some"}}

RECURSIVE LinkedFrom(_, _, _)
LinkedFrom(d, ids, n) ==
    IF n = 0 THEN ids
    ELSE LinkedFrom(d, ids \cup UNION {ItemLinks(d, id) : id \in ids}, n - 1)

RootLinks(d) ==
    IF d.catalog.tag = "None" THEN {}
    ELSE LET outlines_ref == reference_at(d.catalog.val, "Outlines") IN
         IF outlines_ref.tag = "None" THEN {}
         ELSE LET outlines == get_dictionary(d, outlines_ref.val) IN
              IF outlines.tag = "None" THEN {}
              ELSE LET first == reference_at(outlines.val, "First") IN
                   IF first.tag = "None" THEN {} ELSE {first.val}

OutlineNodes(d) ==
    {id \in LinkedFrom(d, RootLinks(d), MaxOutlineNodes + 1) : get_dictionary(d, id).tag = "Some"}

\* Some node is reached from itself over one link or more.
HasCycle(d) ==
    \E id \in OutlineNodes(d) : id \in LinkedFrom(d, ItemLinks(d, id), MaxOutlineNodes + 1)

\* C19: on an outline without cycle the traversal visits no more nodes than
\* the outline has (its items and its root), so it ends; on an outline with
\* a cycle of First/Next links it never returns a result.
C19_VisitsBoundedByNodeCount ==
    /\ ~HasCycle(doc) => visits <= Cardinality(OutlineNodes(doc)) + 1
    /\ HasCycle(doc) => pc \notin {"toc_done", "flattened"}

(***************************************************************************)
(* The pairs of a number tree.                                             *)
(***************************************************************************)
\* The array under a key of a node; missing or not an array: no elements.
ArrayAt(dict, key) ==
    IF key \in DOMAIN dict /\ dict[key].tag = "Array" THEN dict[key].a ELSE <<>>

\* The objects a node's Kids array names that are dictionaries.
KidsOf(d, id) ==
    LET node == get_dictionary(d, id) IN
    IF node.tag = "None" THEN {}
    ELSE LET kids == ArrayAt(node.val, "Kids") IN
         {kids[k].id : k \in {j \in 1..Len(kids) :
              kids[j].tag = "Reference" /\ get_dictionary(d, kids[j].id).tag = "Some"}}

RECURSIVE TreeNodes(_, _, _)
TreeNodes(d, ids, n) ==
    IF n = 0 THEN ids
    ELSE TreeNodes(d, ids \cup UNION {KidsOf(d, id) : id \in ids}, n - 1)

\* The positions of the well-formed pairs in the Nums array of a node: an
\* integer followed by a dictionary or a reference to a dictionary.
WellFormedPairs(d, id) ==
    LET nums == ArrayAt(get_dictionary(d, id).val, "Nums") IN
    {k \in 1..(Len(nums) \div 2) :
        /\ nums[2 * k - 1].tag = "Integer"
        /\ \/ nums[2 * k].tag = "Dictionary"
           \/ /\ nums[2 * k].tag = "Reference"
              /\ get_dictionary(d, nums[2 * k].id).tag = "Some"}

\* The well-formed pairs of the tree, each as its node and its position.
TreePairs(d) ==
    UNION {{<<id, k>> : k \in WellFormedPairs(d, id)} : id \in TreeNodes(d, {RootId}, 3)}

\* The page index a pair gives: its key as a u32.
PairKey(d, pair) == as_u32(ArrayAt(get_dictionary(d, pair[1]).val, "Nums")[2 * pair[2] - 1].int)

RECURSIVE PairsInOrder(_, _)
PairsInOrder(d, nums) ==
    IF Len(nums) < 2 THEN <<>>
    ELSE LET target == nums[2]
             dicts == IF target.tag = "Dictionary" THEN {target.d}
                      ELSE IF target.tag = "Reference" /\ get_dictionary(d, target.id).tag = "Some"
                      THEN {get_dictionary(d, target.id).val}
                      ELSE {}
             here == IF nums[1].tag = "Integer" /\ dicts # {}
                     THEN <<[key |-> as_u32(nums[1].int), label_dict |-> CHOOSE x \in dicts : TRUE]>>
                     ELSE <<>>
         IN here \o PairsInOrder(d, SubSeq(nums, 3, Len(nums)))

\* A node's pairs, then the pairs of its Kids in their order, `depth`
\* levels down.
RECURSIVE TraversalPairs(_, _, _)
RECURSIVE TraversalOfKids(_, _, _)
TraversalOfKids(d, kids, depth) ==
    IF kids = <<>> \/ depth = 0 THEN <<>>
    ELSE (IF Head(kids).tag = "Reference" THEN TraversalPairs(d, Head(kids).id, depth - 1) ELSE <<>>)
             \o TraversalOfKids(d, Tail(kids), depth)

TraversalPairs(d, id, depth) ==
    LET node == get_dictionary(d, id) IN
    IF node.tag = "None" THEN <<>>
    ELSE PairsInOrder(d, ArrayAt(node.val, "Nums"))
             \o TraversalOfKids(d, ArrayAt(node.val, "Kids"), depth)

\* The pair that gives the label of a page index: of the pairs with the
\* greatest key not above the index, the one read last.
WinningPairs(d, page_index) ==
    LET pairs == TraversalPairs(d, RootId, 3)
        hits == {i \in 1..Len(pairs) : pairs[i].key <= page_index}
    IN {pairs[i] : i \in {h \in hits : \A j \in hits :
                             \/ pairs[j].key < pairs[h].key
                             \/ (pairs[j].key = pairs[h].key /\ j <= h)}}

\* The label a single pair gives a page index.
LabelOfPair(pair, page_index, checks) ==
    compute_label(<<PageLabelRange(pair.key, label_style(pair.label_dict),
                                   label_prefix(pair.label_dict),
                                   label_start_value(pair.label_dict))>>, page_index, checks)

\* C21: of the ranges with the same start_page the one read last in the
\* number tree (a node's Nums pairs in array order, then its Kids in order)
\* gives the labels of the pages from that start_page up to the next range.
C21_LastRangeWinsTies ==
    doc \in TreeDocuments =>
        \A p \in 1..Len(labels) :
            \A pair \in WinningPairs(doc, p - 1) :
                /\ LabelOfPair(pair, p - 1, overflow_checks).tag = "Ok"
                /\ labels[p].logical_label = LabelOfPair(pair, p - 1, overflow_checks).val

\* The root's Nums gives page index 0 decimal numbers, the Nums of a kid
\* gives it upper-case roman numbers from 0: page 1 got the label "0".
C21_Witness ==
    /\ doc \in TreeDocuments
    /\ Len(labels) >= 1
    /\ LET pairs == TraversalPairs(doc, RootId, 3) IN
       /\ Len(pairs) = 2
       /\ DOMAIN doc.objects[RootId].d = {"Nums", "Kids"}
       /\ doc.objects[RootId].d["Nums"].tag = "Array"
       /\ Len(doc.objects[RootId].d["Nums"].a) = 2
       /\ pairs[1].key = 0 /\ pairs[1].label_dict = ("S" :> Name("D"))
       /\ pairs[2].key = 0
       /\ pairs[2].label_dict = (("S" :> Name("R")) @@ ("St" :> Integer(0)))
    /\ labels[1].logical_label = Str(<<"0">>)

(***************************************************************************)
(* The pairs of a name tree in the order the tree is read.                 *)
(***************************************************************************)
\* The node the Catalog.Names.Dests reference names; the set is empty when
\* the catalog has no such reference.
NameTreeRoots(d) ==
    LET c == d.catalog.val IN
    IF "Names" \in DOMAIN c /\ c["Names"].tag = "Reference"
          /\ get_dictionary(d, c["Names"].id).tag = "Some"
          /\ "Dests" \in DOMAIN get_dictionary(d, c["Names"].id).val
          /\ get_dictionary(d, c["Names"].id).val["Dests"].tag = "Reference"
    THEN {get_dictionary(d, c["Names"].id).val["Dests"].id}
    ELSE {}

\* The targets of the pairs with the string key `name`: a node's Names
\* pairs in array order, then its Kids depth-first in order.
RECURSIVE NameHits(_, _, _, _)
RECURSIVE NameHitsOfKids(_, _, _, _)
NameHitsOfKids(d, kids, name, depth) ==
    IF kids = <<>> \/ depth = 0 THEN <<>>
    ELSE (IF Head(kids).tag = "Reference" THEN NameHits(d, Head(kids).id, name, depth - 1)
          ELSE <<>>)
             \o NameHitsOfKids(d, Tail(kids), name, depth)

NameHits(d, id, name, depth) ==
    LET node == get_dictionary(d, id) IN
    IF node.tag = "None" THEN <<>>
    ELSE LET names == ArrayAt(node.val, "Names")
             here == {k \in 1..(Len(names) \div 2) : names[2 * k - 1] = String(name)}
             target(i) == names[2 * (CHOOSE k \in here :
                                        Cardinality({j \in here : j <= k}) = i)]
         IN [i \in 1..Cardinality(here) |-> target(i)]
                \o NameHitsOfKids(d, ArrayAt(node.val, "Kids"), name, depth)

\* C22: the lookup of a name in the name tree gives the page of the first
\* pair, in the order the tree is read, whose key is the name; later pairs
\* with that key are never used.  (Seen through an item whose destination
\* is the name, in a document without legacy Dests dictionary.)
C22_FirstHitAnswers ==
    (/\ pc = "toc_done"
     /\ doc \in DestinationDocuments
     /\ DestinationName(doc) # <<>>
     /\ "Dests" \notin DOMAIN doc.catalog.val) =>
        \A root \in NameTreeRoots(doc) :
            LET hits == NameHits(doc, root, DestinationName(doc), 3) IN
            hits # <<>> =>
                /\ IsOk(ret)
                /\ Len(ret.val) = 1
                /\ ret.val[1].page = TargetPage(doc, hits[1])

(***************************************************************************)
(* The tree behind a flat list.                                            *)
(***************************************************************************)
\* The entries of level `level` of a list, each with the tree rebuilt from
\* the entries between it and the next entry of its level: an entry is the
\* child of the nearest earlier entry whose level is one less.
RECURSIVE Rebuild(_, _)
Rebuild(list, level) ==
    LET starts == {i \in 1..Len(list) : list[i].level = level}
        nth(k) == CHOOSE i \in starts : Cardinality({j \in starts : j <= i}) = k
        last(k) == IF k = Cardinality(starts) THEN Len(list) ELSE nth(k + 1) - 1
    IN [k \in 1..Cardinality(starts) |->
           [title |-> list[nth(k)].title,
            page |-> list[nth(k)].page,
            level |-> level,
            children |-> Rebuild(SubSeq(list, nth(k) + 1, last(k)), level + 1)]]

\* C23: the flattened list of a TOC tree that extract_toc_from_doc returned
\* starts at level 0, goes at most one level deeper from an entry to the
\* next, and the tree rebuilt from it is the tree that was flattened.
C23_FlatListRebuildsTheTree ==
    (pc = "flattened" /\ doc \in TocDocuments) =>
        /\ flat # <<>> => flat[1].level = 0
        /\ \A i \in 2..Len(flat) : flat[i].level <= flat[i - 1].level + 1
        /\ Rebuild(flat, 0) = ret.val

\* A tree of three entries, the second the child of the first and the third
\* the child of the second, was flattened.
C23_Witness ==
    /\ pc = "flattened"
    /\ doc \in TocDocuments
    /\ Len(flat) = 3
    /\ flat[1].level = 0 /\ flat[2].level = 1 /\ flat[3].level = 2
    /\ Len(ret.val) = 1
    /\ Len(ret.val[1].children) = 1
    /\ Len(ret.val[1].children[1].children) = 1

\* A tree whose first entry has a child and a sibling was flattened.
C23_WitnessSibling ==
    /\ pc = "flattened"
    /\ doc \in TocDocuments
    /\ Len(flat) = 3
    /\ flat[1].level = 0 /\ flat[2].level = 1 /\ flat[3].level = 0
    /\ Len(ret.val) = 2

(***************************************************************************)
(* The arithmetic of compute_label.                                        *)
(***************************************************************************)
\* C25, as stated: for every page index below the page count that
\* compute_label is called with, page_index - start_page of the range it
\* uses is not negative and start_value + (page_index - start_page) is at
\* most u32::MAX, whatever the Nums keys and St values of the document are.
C25_LabelArithmeticStaysInU32 ==
    (pc \in {"labels_loop", "panicked"} /\ physical_page \in 1..total_pages) =>
        LET page_index == physical_page - 1
            r == LastRangeUpTo(label_ranges, page_index)
        IN /\ page_index - r.start_page >= 0
           /\ r.start_value + (page_index - r.start_page) <= UMax

(***************************************************************************)
(* Dest and A on one item.                                                 *)
(***************************************************************************)
\* C26: the page of an item with a Dest entry is the page of Dest alone;
\* its A entry is not looked at, so an item whose Dest gives no page has no
\* page even when its GoTo action names one.
C26_DestBeforeAction ==
    (/\ pc = "toc_done"
     /\ doc \in DestinationDocuments
     /\ "Dest" \in DOMAIN OnlyItem(doc)) =>
        /\ IsOk(ret)
        /\ Len(ret.val) = 1
        /\ ret.val[1].page = DirectDestinationPage(doc, OnlyItem(doc)["Dest"])

\* An item with an empty Dest array and the action GoTo page 1 got no page.
C26_Witness ==
    /\ pc = "toc_done"
    /\ doc \in DestinationDocuments
    /\ DOMAIN OnlyItem(doc) \cap {"Dest", "A"} = {"Dest", "A"}
    /\ OnlyItem(doc)["Dest"] = Array(<<>>)
    /\ ActionDictionaries(doc, OnlyItem(doc)) = {("S" :> Name("GoTo")) @@ ("D" :> PageDest(1))}
    /\ IsOk(ret)
    /\ ret.val[1].page = None

\* An item with Dest page 2 and the action GoTo page 1 got page 2.
C26_WitnessBothResolve ==
    /\ pc = "toc_done"
    /\ doc \in DestinationDocuments
    /\ DOMAIN OnlyItem(doc) \cap {"Dest", "A"} = {"Dest", "A"}
    /\ OnlyItem(doc)["Dest"] = PageDest(2)
    /\ IsOk(ret)
    /\ ret.val[1].page = Some(2)

(***************************************************************************)
(* Page lists and the documents made from them.                            *)
(***************************************************************************)
\* A list that is not empty and holds pages of 1..total only.
IsListOfPages(list, total) ==
    /\ list # <<>>
    /\ \A k \in 1..Len(list) : 1 <= list[k] /\ list[k] <= total

\* C27: a successful PageRange::expand and a successful expand_page_ranges
\* return a non-empty list of pages within 1..total_pages, so that with
\* total_pages = 0 every input fails, and the list of expand_page_ranges is
\* never refused by the page validation of extract_pages or of
\* extract_text_pages for the document whose page count it was expanded for.
C27_ExpandedPagesAreValid ==
    /\ (pc \in {"expanded", "list_done"} /\ IsOk(ret)) => IsListOfPages(ret.val, total_pages)
    /\ (pc \in {"expanded", "list_done"} /\ total_pages = 0) => IsErr(ret)
    /\ pc \in {"extracted", "read"} => IsOk(ret)
    /\ (pc = "run_done" /\ IsErr(ret)) => ret.kind \in {"ParseError", "RangeError"}

\* The list of a text with a reversed range was accepted by extract_pages.
C27_Witness ==
    /\ pc = "extracted"
    /\ IsOk(ret)
    /\ Len(pages) >= 3
    /\ pages[1] > pages[2]
    /\ total_pages = doc.n_pages

\* The list of a text was accepted by extract_text_pages.
C27_WitnessRead ==
    /\ pc = "read"
    /\ IsOk(ret)
    /\ Len(ret.val) >= 2

\* A single range was expanded for a document without pages, and failed.
C27_WitnessNoPages ==
    /\ pc = "expanded"
    /\ total_pages = 0
    /\ IsErr(ret)

\* The source pages a list names.
ListedPages(list, d) == {p \in 1..d.n_pages : \E k \in 1..Len(list) : list[k] = p}

\* C28: extract_pages fails, with no document, when a listed page is 0 or
\* above the page count; otherwise the new document holds source page p
\* exactly when p is in the list, in the source's order, whatever the order
\* and the repetitions of the list.  The source document stays as it was.
C28_ExtractKeepsListedPagesInSourceOrder ==
    /\ [](pc = "extracted" =>
            IF \E k \in 1..Len(pages) : pages[k] = 0 \/ pages[k] > doc.n_pages
            THEN IsErr(ret)
            ELSE /\ IsOk(ret)
                 /\ {ret.val.page_ids[k] : k \in 1..Len(ret.val.page_ids)}
                        = {PageObjectId(p) : p \in ListedPages(pages, doc)}
                 /\ \A j, k \in 1..Len(ret.val.page_ids) :
                        j < k => ret.val.page_ids[j] < ret.val.page_ids[k])
    /\ [][doc' = doc]_vars

\* A list in descending order with a repeated page gave a document with two
\* of the three source pages, in source order.
C28_Witness ==
    /\ pc = "extracted"
    /\ doc.n_pages = 3
    /\ pages = <<3, 1, 3>>
    /\ IsOk(ret)
    /\ ret.val.page_ids = <<PageObjectId(1), PageObjectId(3)>>

\* A list with page 0 was refused.
C28_WitnessRefused ==
    /\ pc = "extracted"
    /\ doc.n_pages = 3
    /\ pages = <<1, 0>>
    /\ IsErr(ret)

\* The list of the text "3-1,1" gave the whole document.
C28_WitnessFromText ==
    /\ pc = "extracted"
    /\ s # <<>>
    /\ pages = <<3, 2, 1, 1>>
    /\ IsOk(ret)
    /\ Len(ret.val.page_ids) = 3

====
